---- MODULE Spec2Model ----
(***************************************************************************)
(* Cube-dodge endless runner (oktayelipek/fubis): the simulation layer.    *)
(*                                                                         *)
(* Game (js/particles.js, second half) drives ObstacleManager              *)
(* (js/obstacles.js), PowerUpManager (powerups.js) and ParticleSystem      *)
(* (js/particles.js) from a fixed-step loop.                               *)
(*                                                                         *)
(* Numbers.  Every time quantity of the program is a binary64 number of    *)
(* seconds.  The model keeps them as integers:                             *)
(*   - time:     1 unit = 1/6000 s   (1/60 s = 100, 0.016 s = 96)          *)
(*   - position: 1 unit = 1/600 world unit along Z                         *)
(*   - speed:    1 unit = 1/10 world unit per second                       *)
(*   - difficulty: 50 times the program's value (score/50 capped at 3)     *)
(* so that z += speed * dt is z + speed * dt / 100 and is exact for every  *)
(* dt the program uses.  The binary64 values differ from these exact       *)
(* values by less than 1e-12 s, which matters only where a comparison is   *)
(* an exact tie; each such comparison is an operator of its own whose      *)
(* comment records what binary64 evaluation of the source gives.           *)
(*                                                                         *)
(* Geometry.  x, y, scale and rotation of the entities are random or       *)
(* player-driven and the box test is three.js code, so the outcome of      *)
(* intersectsBox is an input of the tick: any set of active entities may   *)
(* intersect the player.                                                   *)
(***************************************************************************)
EXTENDS Integers, Sequences, FiniteSets, TLC

VARIABLES
    state,              \* Game.state: "MENU", "PLAYING", "GAME_OVER"
    score,              \* Game.score
    highScore,          \* Game.highScore
    scoreTimer,         \* Game.scoreTimer
    lastMilestone,      \* Game.lastMilestone
    accumulator,        \* Game.accumulator
    obstaclePool,       \* ObstacleManager.pool
    obstacleSpawnTimer, \* ObstacleManager.spawnTimer
    powerupPool,        \* PowerUpManager.pool
    powerupSpawnTimer,  \* PowerUpManager.spawnTimer
    activePowerUp,      \* PowerUpManager.activePowerUp
    particlePool,       \* ParticleSystem.pool
    input,              \* InputManager: actions.jump and _jumpPressed
    player,             \* Player: isGrounded, velocityY and height above the ground
    clock,              \* Game.clock: running, autoStart and the time since oldTime
    host,               \* the browser: document.hidden, the Space key, and their history
    pc,                 \* position of _animate: "idle" between frames, "loop" inside the while loop
    frame,              \* history: the current/last call of _animate
    tick,               \* history: the locals of the last _update call
    collected,          \* history: the last pickup of the session and the simulated time since
    steps,              \* history: number of loop iterations and idle frames run so far
    event,              \* history: the last handler that ran: "none", "start", "frame", "idle", "tick", "burst"
    request             \* history: the particle burst requested by the last step, if it was a lone request

vars == <<state, score, highScore, scoreTimer, lastMilestone, accumulator,
          obstaclePool, obstacleSpawnTimer, powerupPool, powerupSpawnTimer,
          activePowerUp, particlePool, input, player, clock, host,
          pc, frame, tick, collected, steps, event, request>>

----
\* Bounds of the model

\* poolSize argument of the ObstacleManager constructor
ObstaclePoolSize == 2
\* poolSize argument of the PowerUpManager constructor
PowerUpPoolSize == 1
\* poolSize argument of the ParticleSystem constructor
ParticlePoolSize == 2
\* number of loop iterations and idle frames explored
MaxSteps == 8
\* number of fixed steps of a scripted session
ScriptSteps == 1450
\* number of loop iterations and idle frames explored from construction
BootSteps == 115

\* raw frame deltas delivered by the clock: below one step, 0.05 s, above the clamp
RawDeltas == {50, 300, 700}
\* the same and a clock that steps back by 0.016 s
ClockDeltas == RawDeltas \cup {-96}
\* how far below zero the accumulator is followed
MaxDebt == 200
\* persisted high scores read at boot
HighScores == {0, 150}
\* persisted high score of the scripted sessions
SessionHighScores == {150}

----
\* Program constants

MENU == "MENU"
PLAYING == "PLAYING"
GAME_OVER == "GAME_OVER"
States == {MENU, PLAYING, GAME_OVER}

SHIELD == "SHIELD"
DOUBLE == "DOUBLE"
SHATTER == "SHATTER"
POWERUP_TYPES == {SHIELD, DOUBLE, SHATTER}

\* the absent activePowerUp (null)
None == [type |-> "NONE", timeLeft |-> 0]

\* one second, in time units
Second == 6000
\* this.fixedTimeStep = 1 / 60
fixedTimeStep == 100
\* Math.min(rawDt, 0.1)
MaxDelta == 600
\* this.particles.update(0.016) of the idle branch
IdleStep == 96
\* if (this.scoreTimer >= 0.1)
ScoreInterval == 600
\* this.score += 5
ShatterBonus == 5
\* Math.floor(this.score / 50)
MilestoneEvery == 50

\* POWERUP_CONFIG[type].duration, in seconds
DurationSeconds(type) ==
    CASE type = SHIELD -> 5
      [] type = DOUBLE -> 8
      [] type = SHATTER -> 6

\* POWERUP_CONFIG[type].duration
Duration(type) == DurationSeconds(type) * Second

Min2(a, b) == IF a <= b THEN a ELSE b
Max2(a, b) == IF a >= b THEN a ELSE b

----
\* Spawn/difficulty scheduler

\* scale of the difficulty value: Difficulty is 50 times the program's
DifficultyScale == 50
\* the cap 3 of Math.min(score / 50, 3)
DifficultyCap == 3

\* const difficulty = Math.min(this.score / 50, 3)             (Game._update)
GameDifficulty(s) == Min2(s, DifficultyCap * DifficultyScale)

\* const difficulty = Math.min(score / 50, 3)                  (ObstacleManager.update)
ObstacleDifficulty(s) == Min2(s, DifficultyCap * DifficultyScale)

\* a power-up manager that clamps the difficulty at 4
PowerUpDifficultyLoose(s) == Min2(s, (DifficultyCap + 1) * DifficultyScale)

\* const difficulty = Math.min(score / 50, 3)                  (PowerUpManager.update)
PowerUpDifficulty(s) == Min2(s, DifficultyCap * DifficultyScale)

\* this.baseSpeed = 15
baseSpeed == 150
\* this.spawnZ = -80
spawnZ == -48000
\* this.despawnZ = 10
despawnZ == 6000

\* const currentSpeed = this.baseSpeed + difficulty * 5
ObstacleSpeed(s) == baseSpeed + ObstacleDifficulty(s)

\* const currentInterval = Math.max(0.3, this.spawnInterval - difficulty * 0.25)
ObstacleInterval(s) == Max2(1800, 7200 - 30 * ObstacleDifficulty(s))

\* this.spawnTimer >= currentInterval, for the timer value t reached by adding
\* 1/60 to 0.  Away from a tie the two sides differ by at least 10 units.  The
\* ties are the scores 0, 10, ..., 130, 140 and every score >= 150; binary64
\* evaluation of the source gives true on each of them except on score 140
\* (30 additions of 1/60 stay below 1.2 - 2.8 * 0.25).
ObstacleIntervalElapsed(t, s) ==
    \/ t > ObstacleInterval(s)
    \/ t = ObstacleInterval(s) /\ s # 140

\* const currentSpeed = 15 + difficulty * 5
PowerUpSpeed(s) == 150 + PowerUpDifficulty(s)

\* const interval = Math.max(5, this.spawnInterval - difficulty * 0.5)
PowerUpInterval(s) == Max2(30000, 48000 - 60 * PowerUpDifficulty(s))

\* this.spawnTimer >= interval.  The ties are the scores 0, 5, ..., 145 and every
\* score >= 150 (480, 477, ..., 390 additions of 1/60); binary64 evaluation of
\* the source gives false on every one of them: the sum stays below the interval
\* and the spawn comes one step later.
PowerUpIntervalElapsed(t, s) == t > PowerUpInterval(s)

\* this.scoreTimer >= 0.1: six additions of 1/60 give 0.09999999999999999 in
\* binary64, which is below 0.1, so the tie compares false.
ScoreTimerElapsed(t) == t > ScoreInterval

\* an expiry test that grants one more step
TimeLeftExpiredLate(t) == t < 0 - fixedTimeStep

\* this.activePowerUp.timeLeft <= 0: 5, 8 and 6 minus 300, 480 and 360 times
\* 1/60 are about 1e-14 in binary64, above 0, so the tie compares false.
TimeLeftExpired(t) == t < 0

\* position.z += this.speed * dt
Advance(z, speed, dt) == z + (speed * dt) \div 100

----
\* Pooled entities

Slots(pool) == DOMAIN pool
ActiveSlots(pool) == {i \in DOMAIN pool : pool[i].active}

\* an acquisition that recycles the first slot of an exhausted pool
GetInactiveOrFirst(pool) ==
    IF \E i \in DOMAIN pool : ~pool[i].active
    THEN CHOOSE i \in DOMAIN pool :
             /\ ~pool[i].active
             /\ \A j \in DOMAIN pool : j < i => pool[j].active
    ELSE 1

\* this.pool.find(o => !o.active) || null; 0 stands for null
GetInactive(pool) ==
    IF \E i \in DOMAIN pool : ~pool[i].active
    THEN CHOOSE i \in DOMAIN pool :
             /\ ~pool[i].active
             /\ \A j \in DOMAIN pool : j < i => pool[j].active
    ELSE 0

\* a scan that returns the last intersecting active entity
LastTouched(pool, touching) ==
    LET hits == {i \in DOMAIN pool : pool[i].active /\ i \in touching}
    IN IF hits = {} THEN 0
       ELSE CHOOSE i \in hits : \A j \in hits : i >= j

\* the first entity of the pool, in slot order, that is active and intersects
\* the player; touching is the set of slots whose box intersects; 0 stands for null
FirstTouched(pool, touching) ==
    LET hits == {i \in DOMAIN pool : pool[i].active /\ i \in touching}
    IN IF hits = {} THEN 0
       ELSE CHOOSE i \in hits : \A j \in hits : i <= j

\* new THREE.Box3(): the empty box
EmptyBox == [set |-> FALSE, z |-> 0]
\* this.boundingBox.setFromObject(this.mesh) with the mesh at z
BoxAt(z) == [set |-> TRUE, z |-> z]

\* the entities whose bounding box a scan of the pool tests against the
\* player's: the active ones up to and including the first that intersects
Tested(pool, touching) ==
    LET hit == FirstTouched(pool, touching)
    IN {i \in ActiveSlots(pool) : hit = 0 \/ i <= hit}

\* new Obstacle(scene)
NewObstacle == [active |-> FALSE, z |-> 0, speed |-> 0, isExplosive |-> FALSE, box |-> EmptyBox]

\* Obstacle.activate(x, z, speed, explosive)
ObstacleActivate(o, z, speed, explosive) ==
    [o EXCEPT !.active = TRUE, !.z = z, !.speed = speed, !.isExplosive = explosive]

\* Obstacle.deactivate()
ObstacleDeactivate(o) == [o EXCEPT !.active = FALSE, !.isExplosive = FALSE]

\* an update that moves the obstacle and leaves its bounding box behind
ObstacleUpdateStale(o, dt) ==
    IF ~o.active THEN o ELSE [o EXCEPT !.z = Advance(o.z, o.speed, dt)]

\* Obstacle.update(dt)
ObstacleUpdate(o, dt) ==
    IF ~o.active THEN o
    ELSE [o EXCEPT !.z = Advance(o.z, o.speed, dt), !.box = BoxAt(Advance(o.z, o.speed, dt))]

\* a spawn that allocates a new slot when the pool is exhausted
SpawnObstacleGrow(pool, speed, explosive) ==
    LET i == GetInactive(pool)
    IN IF i = 0 THEN Append(pool, ObstacleActivate(NewObstacle, spawnZ, speed, explosive))
       ELSE [pool EXCEPT ![i] = ObstacleActivate(@, spawnZ, speed, explosive)]

\* ObstacleManager._spawnObstacle(speed); explosive is the outcome of
\* Math.random() < 0.15
SpawnObstacle(pool, speed, explosive) ==
    LET i == GetInactive(pool)
    IN IF i = 0 THEN pool
       ELSE [pool EXCEPT ![i] = ObstacleActivate(@, spawnZ, speed, explosive)]

\* the random outcomes ObstacleManager.update can consume in one call:
\* second and third are Math.random() < 0.3 and Math.random() < 0.2,
\* explosive[k] is Math.random() < 0.15 of the k-th spawn attempt
NoObstacleDraw == [second |-> FALSE, third |-> FALSE, explosive |-> <<FALSE, FALSE, FALSE>>]

ObstacleDraws(timer, dt, s, Coin) ==
    IF ~ObstacleIntervalElapsed(timer + dt, s) THEN {NoObstacleDraw}
    ELSE {[second |-> b2, third |-> b3, explosive |-> <<e1, e2, e3>>] :
            b2 \in (IF ObstacleDifficulty(s) > 50 THEN Coin ELSE {FALSE}),
            b3 \in (IF ObstacleDifficulty(s) > 125 THEN Coin ELSE {FALSE}),
            e1 \in Coin, e2 \in Coin, e3 \in Coin}

\* an update loop that moves the obstacles and never releases them
ObstacleSweepNever(pool, dt) == [i \in DOMAIN pool |-> ObstacleUpdate(pool[i], dt)]

\* the update loop of ObstacleManager.update: every active obstacle moves and
\* is deactivated once beyond despawnZ
ObstacleSweep(pool, dt) ==
    [i \in DOMAIN pool |->
        IF ~pool[i].active THEN pool[i]
        ELSE LET o == ObstacleUpdate(pool[i], dt)
             IN IF o.z > despawnZ THEN ObstacleDeactivate(o) ELSE o]

\* a scheduler that carries the overshoot of the timer over to the next interval
ObstacleManagerUpdateCarry(pool, timer, dt, s, draw) ==
    LET difficulty == ObstacleDifficulty(s)
        currentSpeed == ObstacleSpeed(s)
        t1 == timer + dt
        elapsed == ObstacleIntervalElapsed(t1, s)
        p1 == IF elapsed THEN SpawnObstacle(pool, currentSpeed, draw.explosive[1]) ELSE pool
        p2 == IF elapsed /\ difficulty > 50 /\ draw.second
              THEN SpawnObstacle(p1, currentSpeed, draw.explosive[2]) ELSE p1
        p3 == IF elapsed /\ difficulty > 125 /\ draw.third
              THEN SpawnObstacle(p2, currentSpeed, draw.explosive[3]) ELSE p2
    IN [pool |-> ObstacleSweep(p3, dt),
        spawnTimer |-> IF elapsed THEN t1 - ObstacleInterval(s) ELSE t1,
        difficulty |-> difficulty,
        attempts |-> IF ~elapsed THEN 0
                     ELSE 1 + (IF difficulty > 50 /\ draw.second THEN 1 ELSE 0)
                            + (IF difficulty > 125 /\ draw.third THEN 1 ELSE 0)]

\* ObstacleManager.update(dt, score)
ObstacleManagerUpdate(pool, timer, dt, s, draw) ==
    LET difficulty == ObstacleDifficulty(s)
        currentSpeed == ObstacleSpeed(s)
        t1 == timer + dt
        elapsed == ObstacleIntervalElapsed(t1, s)
        p1 == IF elapsed THEN SpawnObstacle(pool, currentSpeed, draw.explosive[1]) ELSE pool
        p2 == IF elapsed /\ difficulty > 50 /\ draw.second
              THEN SpawnObstacle(p1, currentSpeed, draw.explosive[2]) ELSE p1
        p3 == IF elapsed /\ difficulty > 125 /\ draw.third
              THEN SpawnObstacle(p2, currentSpeed, draw.explosive[3]) ELSE p2
    IN [pool |-> ObstacleSweep(p3, dt),
        spawnTimer |-> IF elapsed THEN 0 ELSE t1,
        difficulty |-> difficulty,
        attempts |-> IF ~elapsed THEN 0
                     ELSE 1 + (IF difficulty > 50 /\ draw.second THEN 1 ELSE 0)
                            + (IF difficulty > 125 /\ draw.third THEN 1 ELSE 0)]

\* a destroyObstacle that leaves the obstacle in play
DestroyObstacleSkip(pool, i) == pool

\* ObstacleManager.destroyObstacle(obstacle)
DestroyObstacle(pool, i) == [pool EXCEPT ![i] = ObstacleDeactivate(@)]

\* a reset that leaves the obstacles in play
ObstacleResetKeep(pool) == pool

\* ObstacleManager.reset(): the pool part
ObstacleReset(pool) == [i \in DOMAIN pool |-> ObstacleDeactivate(pool[i])]

----
\* Power-ups

\* new PowerUp(scene)
NewPowerUp == [active |-> FALSE, type |-> "NONE", z |-> 0, speed |-> 0, box |-> EmptyBox]

\* PowerUp.activate(x, z, speed, type)
PowerUpActivate(p, z, speed, type) ==
    [p EXCEPT !.active = TRUE, !.type = type, !.z = z, !.speed = speed]

\* a deactivation that clears the kind and leaves the entity active
PowerUpDeactivateKind(p) == [p EXCEPT !.type = "NONE"]

\* PowerUp.deactivate()
PowerUpDeactivate(p) == [p EXCEPT !.active = FALSE, !.type = "NONE"]

\* PowerUp.update(dt)
PowerUpUpdate(p, dt) ==
    IF ~p.active THEN p
    ELSE [p EXCEPT !.z = Advance(p.z, p.speed, dt), !.box = BoxAt(Advance(p.z, p.speed, dt))]

\* the random outcomes PowerUpManager.update can consume in one call:
\* spawn is Math.random() < 0.6, type is this._randomType()
NoPowerUpDraw == [spawn |-> FALSE, type |-> SHIELD]

PowerUpDraws(timer, dt, s, Coin) ==
    IF ~PowerUpIntervalElapsed(timer + dt, s) THEN {NoPowerUpDraw}
    ELSE {[spawn |-> b, type |-> ty] :
            b \in Coin, ty \in (IF TRUE \in Coin THEN POWERUP_TYPES ELSE {SHIELD})}

\* the update loop of PowerUpManager.update
PowerUpSweep(pool, dt) ==
    [i \in DOMAIN pool |->
        IF ~pool[i].active THEN pool[i]
        ELSE LET p == PowerUpUpdate(pool[i], dt)
             IN IF p.z > despawnZ THEN PowerUpDeactivate(p) ELSE p]

\* "Tick active power-up duration" of PowerUpManager.update
Countdown(ap, dt) ==
    IF ap = None THEN None
    ELSE LET left == ap.timeLeft - dt
         IN IF TimeLeftExpired(left) THEN None ELSE [ap EXCEPT !.timeLeft = left]

\* PowerUpManager.update(dt, score)
PowerUpManagerUpdate(pool, timer, ap, dt, s, draw) ==
    LET difficulty == PowerUpDifficulty(s)
        currentSpeed == PowerUpSpeed(s)
        t1 == timer + dt
        elapsed == PowerUpIntervalElapsed(t1, s)
        pu == GetInactive(pool)
        p1 == IF elapsed /\ draw.spawn /\ pu # 0
              THEN [pool EXCEPT ![pu] = PowerUpActivate(@, spawnZ, currentSpeed, draw.type)]
              ELSE pool
    IN [pool |-> PowerUpSweep(p1, dt),
        spawnTimer |-> IF elapsed THEN 0 ELSE t1,
        activePowerUp |-> Countdown(ap, dt),
        difficulty |-> difficulty,
        spawned |-> IF elapsed /\ draw.spawn THEN pu ELSE 0]

\* a pickup that adds the new duration to the time the previous effect had left
PowerUpCheckCollisionStack(pool, ap, touching) ==
    LET i == FirstTouched(pool, touching)
    IN IF i = 0 THEN [pool |-> pool, activePowerUp |-> ap, slot |-> 0, type |-> "NONE"]
       ELSE [pool |-> [pool EXCEPT ![i] = PowerUpDeactivate(@)],
             activePowerUp |-> [type |-> pool[i].type,
                                timeLeft |-> Duration(pool[i].type) + ap.timeLeft],
             slot |-> i,
             type |-> pool[i].type]

\* PowerUpManager.checkCollision(playerBBox): slot is the collected entity, 0 for null
PowerUpCheckCollision(pool, ap, touching) ==
    LET i == FirstTouched(pool, touching)
    IN IF i = 0 THEN [pool |-> pool, activePowerUp |-> ap, slot |-> 0, type |-> "NONE"]
       ELSE [pool |-> [pool EXCEPT ![i] = PowerUpDeactivate(@)],
             activePowerUp |-> [type |-> pool[i].type, timeLeft |-> Duration(pool[i].type)],
             slot |-> i,
             type |-> pool[i].type]

\* a shield test that also accepts DOUBLE
hasShieldOrDouble(ap) == ap.type \in {SHIELD, DOUBLE}

\* PowerUpManager.hasShield()
hasShield(ap) == ap.type = SHIELD
\* PowerUpManager.hasDouble()
hasDouble(ap) == ap.type = DOUBLE
\* a shatter test that also accepts SHIELD
hasShatterOrShield(ap) == ap.type \in {SHATTER, SHIELD}

\* PowerUpManager.hasShatter()
hasShatter(ap) == ap.type = SHATTER

\* PowerUpManager.reset(): the pool part
PowerUpReset(pool) == [i \in DOMAIN pool |-> PowerUpDeactivate(pool[i])]

----
\* Particles

\* new Particle(scene)
NewParticle == [active |-> FALSE, life |-> 0]

\* Particle.activate(position, velocity, color, life, size)
ParticleActivate(p, life) == [p EXCEPT !.active = TRUE, !.life = life]

\* Particle.deactivate()
ParticleDeactivate(p) == [p EXCEPT !.active = FALSE]

\* an update that releases the particle one update after its life ran out
ParticleUpdateLate(p, dt) ==
    IF ~p.active THEN p
    ELSE IF p.life <= 0 THEN ParticleDeactivate(p)
    ELSE [p EXCEPT !.life = p.life - dt]

\* Particle.update(dt)
ParticleUpdate(p, dt) ==
    IF ~p.active THEN p
    ELSE LET q == [p EXCEPT !.life = p.life - dt]
         IN IF q.life <= 0 THEN ParticleDeactivate(q) ELSE q

\* ParticleSystem.update(dt)
ParticleSystemUpdate(pool, dt) == [i \in DOMAIN pool |-> ParticleUpdate(pool[i], dt)]

\* a burst that activates every inactive particle whatever the count
BurstFill(pool, count, lifeOf) ==
    [i \in DOMAIN pool |-> IF pool[i].active THEN pool[i] ELSE ParticleActivate(pool[i], lifeOf[i])]

\* the loop shared by spawnShatter, spawnExplosion and spawnPickup: up to count
\* particles are taken from the pool, stopping at the first failed acquire;
\* lifeOf[i] is the random life drawn for the particle in slot i
RECURSIVE Burst(_, _, _)
Burst(pool, count, lifeOf) ==
    IF count = 0 THEN pool
    ELSE LET i == GetInactive(pool)
         IN IF i = 0 THEN pool
            ELSE Burst([pool EXCEPT ![i] = ParticleActivate(@, lifeOf[i])], count - 1, lifeOf)

\* lives drawn by the bursts: 0.8 + random * 0.5, 0.6 + random * 0.6, 0.5 + random * 0.3
ShatterLives == {4850}
ExplosionLives == {3650}
PickupLives == {3050}

\* ParticleSystem.spawnShatter(position, color, count)
spawnShatter(pool, count, lifeOf) == Burst(pool, count, lifeOf)
\* ParticleSystem.spawnExplosion(position, count)
spawnExplosion(pool, count, lifeOf) == Burst(pool, count, lifeOf)
\* ParticleSystem.spawnPickup(position, color, count = 15)
spawnPickup(pool, count, lifeOf) == Burst(pool, count, lifeOf)

\* ParticleSystem.reset()
ParticleReset(pool) == [i \in DOMAIN pool |-> ParticleDeactivate(pool[i])]

\* the lives one burst can draw, one per slot
LifeDraws(Lives) == [1..ParticlePoolSize -> Lives]

----
\* Game

\* Input, player and clock

\* new InputManager(): actions.jump and _jumpPressed
NewInput == [jump |-> FALSE, jumpPressed |-> FALSE]

\* a handler that raises the request on every keydown
OnKeyDownJumpRepeat(inp) == [inp EXCEPT !.jump = TRUE, !.jumpPressed = TRUE]

\* InputManager._onKeyDown(e) for e.code = "Space"
OnKeyDownJump(inp) ==
    IF ~inp.jumpPressed THEN [inp EXCEPT !.jump = TRUE, !.jumpPressed = TRUE] ELSE inp

\* InputManager._onKeyUp(e) for e.code = "Space"
OnKeyUpJump(inp) == [inp EXCEPT !.jumpPressed = FALSE]

\* InputManager.consumeJump()
ConsumeJump(inp) ==
    IF inp.jump THEN [input |-> [inp EXCEPT !.jump = FALSE], result |-> TRUE]
    ELSE [input |-> inp, result |-> FALSE]

\* Vertical speed is counted in units of gravity * dt = 30 / 60 = 0.5 and
\* height above groundY in units of 0.5 * dt = 1/120.

\* this.jumpForce = 12
jumpForce == 24
\* this.gravity = 30, times dt = 1/60
gravityStep == 1

\* new Player(scene): the vertical part
NewPlayer == [isGrounded |-> TRUE, velocityY |-> 0, y |-> 0]

\* Player.reset()
PlayerReset(p) == [p EXCEPT !.isGrounded = TRUE, !.velocityY = 0, !.y = 0]

\* Player.jump()
PlayerJump(p) ==
    IF p.isGrounded
    THEN [player |-> [p EXCEPT !.velocityY = jumpForce, !.isGrounded = FALSE], result |-> TRUE]
    ELSE [player |-> p, result |-> FALSE]

\* this.mesh.position.y <= this.groundY: the only tie is the 47th update of a
\* jump, where binary64 gives 0.6000000000000001 > 0.6, so the tie compares
\* false and the player lands in the 48th update.
PlayerLanded(y) == y < 0

\* Player.update(dt, inputActions, activePowerUp): the jump physics
PlayerUpdate(p) ==
    IF p.isGrounded THEN p
    ELSE LET v == p.velocityY - gravityStep
             y == p.y + v
         IN IF PlayerLanded(y) THEN [p EXCEPT !.isGrounded = TRUE, !.velocityY = 0, !.y = 0]
            ELSE [p EXCEPT !.velocityY = v, !.y = y]

\* new THREE.Clock(): since is the time that has passed since oldTime
NewClock == [running |-> FALSE, autoStart |-> TRUE, since |-> 0]

\* THREE.Clock.start()
ClockStart(c) == [c EXCEPT !.running = TRUE, !.since = 0]

\* THREE.Clock.getDelta()
ClockGetDelta(c) ==
    IF c.autoStart /\ ~c.running THEN [clock |-> ClockStart(c), delta |-> 0]
    ELSE IF c.running THEN [clock |-> [c EXCEPT !.since = 0], delta |-> c.since]
    ELSE [clock |-> c, delta |-> 0]

\* a stop that leaves the clock running
ClockStopNot(c) == ClockGetDelta(c).clock

\* THREE.Clock.stop()
ClockStop(c) == [ClockGetDelta(c).clock EXCEPT !.running = FALSE, !.autoStart = FALSE]

\* the browser after loading: the document is visible and Space is up; seen is
\* the time passed in view since the clock was last read or restarted by a
\* frame or by the visibility handler, away the time passed out of view since
\* the document was last hidden or a frame ran in view, sets and served count the
\* jump requests raised and consumed since Space last went down
NewHost == [hidden |-> FALSE, seen |-> 0, away |-> 0, held |-> FALSE, sets |-> 0, served |-> 0]

\* spawnShatter(hit.position, hit.color, 25)
ShatterCount == 25
\* spawnShatter(hit.position, 0x00ffff, 12)
ShieldCount == 12
\* spawnExplosion(..., 50)
ExplosionCount == 50
\* spawnPickup(position, color, count = 15)
PickupCount == 15

\* the fields of Game and of its subsystems, as one record
GameFields == {"state", "score", "highScore", "scoreTimer", "lastMilestone", "accumulator",
               "obstaclePool", "obstacleSpawnTimer", "powerupPool", "powerupSpawnTimer",
               "activePowerUp", "particlePool", "input", "player", "clock"}

\* new Game(): the state after construction, hs being the stored high score
NewGame(hs) ==
    [state |-> MENU, score |-> 0, highScore |-> hs, scoreTimer |-> 0,
     lastMilestone |-> 0, accumulator |-> 0,
     obstaclePool |-> [i \in 1..ObstaclePoolSize |-> NewObstacle],
     obstacleSpawnTimer |-> 0,
     powerupPool |-> [i \in 1..PowerUpPoolSize |-> NewPowerUp],
     powerupSpawnTimer |-> 0,
     activePowerUp |-> None,
     particlePool |-> [i \in 1..ParticlePoolSize |-> NewParticle],
     input |-> NewInput,
     player |-> NewPlayer,
     clock |-> NewClock]

\* a restart that also drops a pending jump request
StartGameClearJump(g) ==
    [g EXCEPT !.state = PLAYING,
              !.score = 0,
              !.scoreTimer = 0,
              !.lastMilestone = 0,
              !.obstaclePool = ObstacleReset(g.obstaclePool),
              !.obstacleSpawnTimer = 0,
              !.powerupPool = PowerUpReset(g.powerupPool),
              !.activePowerUp = None,
              !.powerupSpawnTimer = 0,
              !.particlePool = ParticleReset(g.particlePool),
              !.input = [g.input EXCEPT !.jump = FALSE],
              !.player = PlayerReset(g.player),
              !.clock = ClockStart(g.clock)]

\* a restart that keeps the milestone counter of the previous session
StartGameKeepMilestone(g) ==
    [g EXCEPT !.state = PLAYING,
              !.score = 0,
              !.scoreTimer = 0,
              !.obstaclePool = ObstacleReset(g.obstaclePool),
              !.obstacleSpawnTimer = 0,
              !.powerupPool = PowerUpReset(g.powerupPool),
              !.activePowerUp = None,
              !.powerupSpawnTimer = 0,
              !.particlePool = ParticleReset(g.particlePool),
              !.player = PlayerReset(g.player),
              !.clock = ClockStart(g.clock)]

\* Game._startGame()
StartGame(g) ==
    [g EXCEPT !.state = PLAYING,
              !.score = 0,
              !.scoreTimer = 0,
              !.lastMilestone = 0,
              !.obstaclePool = ObstacleReset(g.obstaclePool),
              !.obstacleSpawnTimer = 0,
              !.powerupPool = PowerUpReset(g.powerupPool),
              !.activePowerUp = None,
              !.powerupSpawnTimer = 0,
              !.particlePool = ParticleReset(g.particlePool),
              !.player = PlayerReset(g.player),
              !.clock = ClockStart(g.clock)]

\* a game over that stores the score whatever the high score is
GameOverAlwaysStore(g, lifeOf) ==
    [g EXCEPT !.state = GAME_OVER,
              !.particlePool = spawnExplosion(g.particlePool, ExplosionCount, lifeOf),
              !.highScore = g.score]

\* a game over that clears the score
GameOverClear(g, lifeOf) ==
    [g EXCEPT !.state = GAME_OVER,
              !.score = 0,
              !.particlePool = spawnExplosion(g.particlePool, ExplosionCount, lifeOf),
              !.highScore = IF g.score > g.highScore THEN g.score ELSE g.highScore]

\* a game over that also ends the active effect
GameOverDeactivate(g, lifeOf) ==
    [g EXCEPT !.state = GAME_OVER,
              !.activePowerUp = None,
              !.particlePool = spawnExplosion(g.particlePool, ExplosionCount, lifeOf),
              !.highScore = IF g.score > g.highScore THEN g.score ELSE g.highScore]

\* Game._gameOver()
GameOver(g, lifeOf) ==
    [g EXCEPT !.state = GAME_OVER,
              !.particlePool = spawnExplosion(g.particlePool, ExplosionCount, lifeOf),
              !.highScore = IF g.score > g.highScore THEN g.score ELSE g.highScore]

\* the locals of a call of _update that returned at once
NoTick == [ran |-> FALSE, score |-> 0, difficulty |-> 0, obstacleDifficulty |-> 0, powerupDifficulty |-> 0,
           points |-> 0, milestone |-> FALSE, effect |-> None,
           pickup |-> 0, pickupType |-> "NONE", hit |-> 0,
           activeP |-> {}, activeO |-> {}, touchP |-> {}, touchO |-> {},
           attempts |-> 0, spawned |-> 0, consumed |-> FALSE, jumped |-> FALSE,
           boxP |-> <<>>, boxO |-> <<>>]

\* Game._update(dt), first part: the subsystems advance and the periodic score
\* increment is applied.  od and pd are the random outcomes of the two managers.
UpdateAdvance(g, dt, od, pd) ==
    LET consume == ConsumeJump(g.input)
        jump == IF consume.result THEN PlayerJump(g.player)
                ELSE [player |-> g.player, result |-> FALSE]
        difficulty == GameDifficulty(g.score)
        om == ObstacleManagerUpdate(g.obstaclePool, g.obstacleSpawnTimer, dt, g.score, od)
        pm == PowerUpManagerUpdate(g.powerupPool, g.powerupSpawnTimer, g.activePowerUp,
                                   dt, g.score, pd)
        particles == ParticleSystemUpdate(g.particlePool, dt)
        t1 == g.scoreTimer + dt
        elapsed == ScoreTimerElapsed(t1)
        points == IF ~elapsed THEN 0 ELSE IF hasDouble(pm.activePowerUp) THEN 2 ELSE 1
        score1 == g.score + points
        milestone == score1 \div MilestoneEvery
        fired == elapsed /\ milestone > g.lastMilestone
    IN [g |-> [g EXCEPT !.input = consume.input,
                        !.player = PlayerUpdate(jump.player),
                        !.obstaclePool = om.pool,
                        !.obstacleSpawnTimer = om.spawnTimer,
                        !.powerupPool = pm.pool,
                        !.powerupSpawnTimer = pm.spawnTimer,
                        !.activePowerUp = pm.activePowerUp,
                        !.particlePool = particles,
                        !.scoreTimer = IF elapsed THEN 0 ELSE t1,
                        !.score = score1,
                        !.lastMilestone = IF fired THEN milestone ELSE g.lastMilestone],
        tick |-> [NoTick EXCEPT !.ran = TRUE,
                                !.score = g.score,
                                !.difficulty = difficulty,
                                !.obstacleDifficulty = om.difficulty,
                                !.powerupDifficulty = pm.difficulty,
                                !.points = points,
                                !.milestone = fired,
                                !.effect = pm.activePowerUp,
                                !.activeP = ActiveSlots(pm.pool),
                                !.activeO = ActiveSlots(om.pool),
                                !.consumed = consume.result,
                                !.jumped = jump.result,
                                !.attempts = om.attempts,
                                !.spawned = pm.spawned]]

\* a collision resolution that uses the effect up on the first obstacle
UpdateResolveConsume(a, touchP, touchO, lives) ==
    LET g == a.g
        pick == PowerUpCheckCollision(g.powerupPool, g.activePowerUp, touchP)
        parts1 == IF pick.slot # 0
                  THEN spawnPickup(g.particlePool, PickupCount, lives.pickup)
                  ELSE g.particlePool
        g1 == [g EXCEPT !.powerupPool = pick.pool,
                        !.activePowerUp = pick.activePowerUp,
                        !.particlePool = parts1]
        hit == FirstTouched(g1.obstaclePool, touchO)
        t1 == [a.tick EXCEPT !.pickup = pick.slot, !.pickupType = pick.type, !.hit = hit,
                             !.touchP = touchP, !.touchO = touchO,
                             !.boxP = [i \in Tested(g.powerupPool, touchP) |-> g.powerupPool[i].box],
                             !.boxO = [i \in Tested(g1.obstaclePool, touchO) |-> g1.obstaclePool[i].box]]
    IN IF hit = 0 THEN [g |-> g1, tick |-> t1]
       ELSE IF hasShatter(g1.activePowerUp)
       THEN [g |-> [g1 EXCEPT !.particlePool = spawnShatter(parts1, ShatterCount, lives.shatter),
                              !.obstaclePool = DestroyObstacle(g1.obstaclePool, hit),
                              !.score = g1.score + ShatterBonus,
                              !.activePowerUp = None],
             tick |-> t1]
       ELSE IF hasShield(g1.activePowerUp)
       THEN [g |-> [g1 EXCEPT !.particlePool = spawnShatter(parts1, ShieldCount, lives.shatter),
                              !.obstaclePool = DestroyObstacle(g1.obstaclePool, hit),
                              !.activePowerUp = None],
             tick |-> t1]
       ELSE LET parts2 == IF g1.obstaclePool[hit].isExplosive
                          THEN spawnExplosion(parts1, ExplosionCount, lives.explosion)
                          ELSE parts1
            IN [g |-> GameOver([g1 EXCEPT !.particlePool = parts2], lives.gameOver),
                tick |-> t1]

\* a collision resolution that tests the obstacles with the effect the tick
\* had before its pickup
UpdateResolveLate(a, touchP, touchO, lives) ==
    LET g == a.g
        pick == PowerUpCheckCollision(g.powerupPool, g.activePowerUp, touchP)
        parts1 == IF pick.slot # 0
                  THEN spawnPickup(g.particlePool, PickupCount, lives.pickup)
                  ELSE g.particlePool
        g1 == [g EXCEPT !.powerupPool = pick.pool,
                        !.activePowerUp = pick.activePowerUp,
                        !.particlePool = parts1]
        hit == FirstTouched(g1.obstaclePool, touchO)
        t1 == [a.tick EXCEPT !.pickup = pick.slot, !.pickupType = pick.type, !.hit = hit,
                             !.touchP = touchP, !.touchO = touchO,
                             !.boxP = [i \in Tested(g.powerupPool, touchP) |-> g.powerupPool[i].box],
                             !.boxO = [i \in Tested(g1.obstaclePool, touchO) |-> g1.obstaclePool[i].box]]
    IN IF hit = 0 THEN [g |-> g1, tick |-> t1]
       ELSE IF hasShatter(g.activePowerUp)
       THEN [g |-> [g1 EXCEPT !.particlePool = spawnShatter(parts1, ShatterCount, lives.shatter),
                              !.obstaclePool = DestroyObstacle(g1.obstaclePool, hit),
                              !.score = g1.score + ShatterBonus],
             tick |-> t1]
       ELSE IF hasShield(g.activePowerUp)
       THEN [g |-> [g1 EXCEPT !.particlePool = spawnShatter(parts1, ShieldCount, lives.shatter),
                              !.obstaclePool = DestroyObstacle(g1.obstaclePool, hit)],
             tick |-> t1]
       ELSE LET parts2 == IF g1.obstaclePool[hit].isExplosive
                          THEN spawnExplosion(parts1, ExplosionCount, lives.explosion)
                          ELSE parts1
            IN [g |-> GameOver([g1 EXCEPT !.particlePool = parts2], lives.gameOver),
                tick |-> t1]

\* Game._update(dt), second part: power-up collision, then obstacle collision.
\* a is the result of the first part; touchP and touchO are the slots of the
\* power-up and obstacle pools whose box intersects the player's; lives are the
\* lives drawn by the bursts.
UpdateResolve(a, touchP, touchO, lives) ==
    LET g == a.g
        pick == PowerUpCheckCollision(g.powerupPool, g.activePowerUp, touchP)
        parts1 == IF pick.slot # 0
                  THEN spawnPickup(g.particlePool, PickupCount, lives.pickup)
                  ELSE g.particlePool
        g1 == [g EXCEPT !.powerupPool = pick.pool,
                        !.activePowerUp = pick.activePowerUp,
                        !.particlePool = parts1]
        hit == FirstTouched(g1.obstaclePool, touchO)
        t1 == [a.tick EXCEPT !.pickup = pick.slot, !.pickupType = pick.type, !.hit = hit,
                             !.touchP = touchP, !.touchO = touchO,
                             !.boxP = [i \in Tested(g.powerupPool, touchP) |-> g.powerupPool[i].box],
                             !.boxO = [i \in Tested(g1.obstaclePool, touchO) |-> g1.obstaclePool[i].box]]
    IN IF hit = 0 THEN [g |-> g1, tick |-> t1]
       ELSE IF hasShatter(g1.activePowerUp)
       THEN [g |-> [g1 EXCEPT !.particlePool = spawnShatter(parts1, ShatterCount, lives.shatter),
                              !.obstaclePool = DestroyObstacle(g1.obstaclePool, hit),
                              !.score = g1.score + ShatterBonus],
             tick |-> t1]
       ELSE IF hasShield(g1.activePowerUp)
       THEN [g |-> [g1 EXCEPT !.particlePool = spawnShatter(parts1, ShieldCount, lives.shatter),
                              !.obstaclePool = DestroyObstacle(g1.obstaclePool, hit)],
             tick |-> t1]
       ELSE LET parts2 == IF g1.obstaclePool[hit].isExplosive
                          THEN spawnExplosion(parts1, ExplosionCount, lives.explosion)
                          ELSE parts1
            IN [g |-> GameOver([g1 EXCEPT !.particlePool = parts2], lives.gameOver),
                tick |-> t1]

\* the lives the bursts of one tick can draw
TickLives ==
    [pickup : LifeDraws(PickupLives), shatter : LifeDraws(ShatterLives),
     explosion : LifeDraws(ExplosionLives), gameOver : LifeDraws(ExplosionLives)]

\* Game._update(dt)
UpdateGame(g, dt, od, pd, touchP, touchO, lives) ==
    IF g.state # PLAYING THEN [g |-> g, tick |-> NoTick]
    ELSE UpdateResolve(UpdateAdvance(g, dt, od, pd), touchP, touchO, lives)

----
\* A scripted session: the player dodges every obstacle, no obstacle is
\* explosive, no second or third obstacle is spawned, a power-up of the scripted
\* type is spawned whenever the interval elapses while no effect is active,
\* and (if script.collect) the player collects a power-up once it is within half
\* a world unit of the player's plane z = 0.

Scripts == [type : POWERUP_TYPES, collect : BOOLEAN]

ScriptPowerUpDraw(g, script) == [spawn |-> g.activePowerUp = None, type |-> script.type]

ScriptTouch(g, script) ==
    IF ~script.collect THEN {}
    ELSE {i \in DOMAIN g.powerupPool :
            g.powerupPool[i].active /\ g.powerupPool[i].z >= -300 /\ g.powerupPool[i].z <= 300}

ScriptLives == CHOOSE l \in TickLives : TRUE

ScriptUpdate(g, script) ==
    UpdateGame(g, fixedTimeStep, NoObstacleDraw, ScriptPowerUpDraw(g, script),
               ScriptTouch(g, script), {}, ScriptLives)

\* the points at which a scripted session is taken up by the full exploration:
\* the effect is about to run out / a power-up is about to reach the player
Expiring(g) == g.activePowerUp # None /\ g.activePowerUp.timeLeft <= 250
Approaching(g) == \E i \in DOMAIN g.powerupPool :
                      g.powerupPool[i].active /\ g.powerupPool[i].z >= -600

Taken(g, script) ==
    \/ script.collect /\ Expiring(g)
    \/ ~script.collect /\ Approaching(g)

\* the scripted session, run until it is taken up or for limit fixed steps
RECURSIVE Stretch(_, _, _)
Stretch(g, script, limit) ==
    IF limit = 0 \/ Taken(g, script) THEN g
    ELSE Stretch(ScriptUpdate(g, script).g, script, limit - 1)

\* the same in stretches of StretchLength fixed steps
StretchLength == 50

RECURSIVE Play(_, _, _)
Play(g, script, limit) ==
    IF limit <= 0 \/ Taken(g, script) THEN g
    ELSE Play(Stretch(g, script, Min2(limit, StretchLength)), script, limit - StretchLength)

----
\* State and actions

Game ==
    [state |-> state, score |-> score, highScore |-> highScore, scoreTimer |-> scoreTimer,
     lastMilestone |-> lastMilestone, accumulator |-> accumulator,
     obstaclePool |-> obstaclePool, obstacleSpawnTimer |-> obstacleSpawnTimer,
     powerupPool |-> powerupPool, powerupSpawnTimer |-> powerupSpawnTimer,
     activePowerUp |-> activePowerUp, particlePool |-> particlePool,
     input |-> input, player |-> player, clock |-> clock]

Install(g) ==
    /\ state' = g.state
    /\ score' = g.score
    /\ highScore' = g.highScore
    /\ scoreTimer' = g.scoreTimer
    /\ lastMilestone' = g.lastMilestone
    /\ accumulator' = g.accumulator
    /\ obstaclePool' = g.obstaclePool
    /\ obstacleSpawnTimer' = g.obstacleSpawnTimer
    /\ powerupPool' = g.powerupPool
    /\ powerupSpawnTimer' = g.powerupSpawnTimer
    /\ activePowerUp' = g.activePowerUp
    /\ particlePool' = g.particlePool
    /\ input' = g.input
    /\ player' = g.player
    /\ clock' = g.clock

Holds(g) ==
    /\ state = g.state
    /\ score = g.score
    /\ highScore = g.highScore
    /\ scoreTimer = g.scoreTimer
    /\ lastMilestone = g.lastMilestone
    /\ accumulator = g.accumulator
    /\ obstaclePool = g.obstaclePool
    /\ obstacleSpawnTimer = g.obstacleSpawnTimer
    /\ powerupPool = g.powerupPool
    /\ powerupSpawnTimer = g.powerupSpawnTimer
    /\ activePowerUp = g.activePowerUp
    /\ particlePool = g.particlePool
    /\ input = g.input
    /\ player = g.player
    /\ clock = g.clock

NoFrame == [playing |-> FALSE, acc |-> 0, ticks |-> 0, raw |-> 0, away |-> 0]
NoPickup == [type |-> "NONE", elapsed |-> 0]
NoRequest == [kind |-> "none", count |-> 0]

InitHistory ==
    /\ pc = "idle"
    /\ frame = NoFrame
    /\ tick = NoTick
    /\ collected = NoPickup
    /\ steps = 0
    /\ event = "none"
    /\ request = NoRequest
    /\ host = NewHost

\* the program after construction
InitBoot ==
    /\ \E hs \in HighScores : Holds(NewGame(hs))
    /\ InitHistory

\* the program in the middle of a scripted session
InitSession ==
    /\ \E hs \in SessionHighScores, script \in Scripts :
          Holds(Play(StartGame(NewGame(hs)), script, ScriptSteps))
    /\ InitHistory

Init == InitBoot \/ InitSession

\* a start handler that restarts whatever the phase is
StartSignalAlways ==
    /\ pc = "idle"
    /\ Install(StartGame(Game))
    /\ collected' = NoPickup
    /\ event' = "start"
    /\ UNCHANGED <<host, pc, frame, tick, steps, request>>

\* the start handler (keydown Space/Enter, touchstart, click)
StartSignal ==
    /\ pc = "idle"
    /\ IF state \in {MENU, GAME_OVER}
       THEN /\ Install(StartGame(Game))
            /\ collected' = NoPickup
       ELSE UNCHANGED <<state, score, highScore, scoreTimer, lastMilestone, accumulator,
                        obstaclePool, obstacleSpawnTimer, powerupPool, powerupSpawnTimer,
                        activePowerUp, particlePool, input, player, clock, collected>>
    /\ event' = "start"
    /\ UNCHANGED <<host, pc, frame, tick, steps, request>>

\* Game._animate(), PLAYING branch up to the while loop; rawDt is clock.getDelta()
AnimatePlaying(rawDt, limit) ==
    /\ pc = "idle"
    /\ state = PLAYING
    /\ steps + (accumulator + Min2(rawDt, MaxDelta)) \div fixedTimeStep <= limit
    /\ LET dt == Min2(rawDt, MaxDelta)
       IN /\ accumulator' = accumulator + dt
          /\ pc' = IF accumulator + dt >= fixedTimeStep THEN "loop" ELSE "idle"
          /\ frame' = [playing |-> TRUE, acc |-> accumulator + dt, ticks |-> 0,
                       raw |-> rawDt, away |-> host.away]
    /\ clock' = ClockGetDelta(clock).clock
    /\ host' = [host EXCEPT !.seen = 0, !.away = IF host.hidden THEN @ ELSE 0]
    /\ event' = "frame"
    /\ UNCHANGED <<state, score, highScore, scoreTimer, lastMilestone,
                   obstaclePool, obstacleSpawnTimer, powerupPool, powerupSpawnTimer,
                   activePowerUp, particlePool, input, player, tick, collected, steps, request>>

\* an idle frame that leaves the particles alone
AnimateIdleFrozen(limit) ==
    /\ pc = "idle"
    /\ state # PLAYING
    /\ steps < limit
    /\ frame' = NoFrame
    /\ clock' = ClockGetDelta(clock).clock
    /\ host' = [host EXCEPT !.seen = 0]
    /\ steps' = steps + 1
    /\ event' = "idle"
    /\ UNCHANGED <<state, score, highScore, scoreTimer, lastMilestone, accumulator,
                   obstaclePool, obstacleSpawnTimer, powerupPool, powerupSpawnTimer,
                   activePowerUp, particlePool, input, player, pc, tick, collected, request>>

\* Game._animate(), idle branch (MENU and GAME_OVER)
AnimateIdle(limit) ==
    /\ pc = "idle"
    /\ state # PLAYING
    /\ steps < limit
    /\ particlePool' = ParticleSystemUpdate(particlePool, IdleStep)
    /\ frame' = NoFrame
    /\ clock' = ClockGetDelta(clock).clock
    /\ host' = [host EXCEPT !.seen = 0]
    /\ steps' = steps + 1
    /\ event' = "idle"
    /\ UNCHANGED <<state, score, highScore, scoreTimer, lastMilestone, accumulator,
                   obstaclePool, obstacleSpawnTimer, powerupPool, powerupSpawnTimer,
                   activePowerUp, input, player, pc, tick, collected, request>>

\* the history of the last pickup after a call of _update
Collected(r, dt) ==
    IF ~r.tick.ran THEN collected
    ELSE IF r.tick.pickup # 0 THEN [type |-> r.tick.pickupType, elapsed |-> 0]
    ELSE IF collected = NoPickup THEN NoPickup
    ELSE [collected EXCEPT !.elapsed = @ + dt]

\* a loop that forgets the remainder after its last iteration
LoopStepDropRemainder(r) ==
    /\ Install([r.g EXCEPT !.accumulator =
                   IF accumulator - fixedTimeStep >= fixedTimeStep
                   THEN accumulator - fixedTimeStep ELSE 0])
    /\ pc' = IF accumulator - fixedTimeStep >= fixedTimeStep THEN "loop" ELSE "idle"
    /\ frame' = [frame EXCEPT !.ticks = @ + 1]
    /\ tick' = r.tick
    /\ collected' = Collected(r, fixedTimeStep)
    /\ steps' = steps + 1
    /\ event' = "tick"
    /\ host' = [host EXCEPT !.served = @ + (IF r.tick.consumed THEN 1 ELSE 0)]
    /\ UNCHANGED request

\* a loop that is left as soon as the phase is no longer PLAYING
LoopStepBreak(r) ==
    /\ Install([r.g EXCEPT !.accumulator = accumulator - fixedTimeStep])
    /\ pc' = IF r.g.state = PLAYING /\ accumulator - fixedTimeStep >= fixedTimeStep
             THEN "loop" ELSE "idle"
    /\ frame' = [frame EXCEPT !.ticks = @ + 1]
    /\ tick' = r.tick
    /\ collected' = Collected(r, fixedTimeStep)
    /\ steps' = steps + 1
    /\ event' = "tick"
    /\ host' = [host EXCEPT !.served = @ + (IF r.tick.consumed THEN 1 ELSE 0)]
    /\ UNCHANGED request

\* one iteration of the while loop of _animate with the result r of _update
LoopStep(r) ==
    /\ Install([r.g EXCEPT !.accumulator = accumulator - fixedTimeStep])
    /\ pc' = IF accumulator - fixedTimeStep >= fixedTimeStep THEN "loop" ELSE "idle"
    /\ frame' = [frame EXCEPT !.ticks = @ + 1]
    /\ tick' = r.tick
    /\ collected' = Collected(r, fixedTimeStep)
    /\ steps' = steps + 1
    /\ event' = "tick"
    /\ host' = [host EXCEPT !.served = @ + (IF r.tick.consumed THEN 1 ELSE 0)]
    /\ UNCHANGED request

\* this._update(this.fixedTimeStep); this.accumulator -= this.fixedTimeStep
Update ==
    /\ pc = "loop"
    /\ IF state # PLAYING
       THEN LoopStep([g |-> Game, tick |-> NoTick])
       ELSE \E od \in ObstacleDraws(obstacleSpawnTimer, fixedTimeStep, score, BOOLEAN),
               pd \in PowerUpDraws(powerupSpawnTimer, fixedTimeStep, score, BOOLEAN) :
              LET a == UpdateAdvance(Game, fixedTimeStep, od, pd)
              IN \E touchP \in SUBSET ActiveSlots(a.g.powerupPool),
                    touchO \in SUBSET ActiveSlots(a.g.obstaclePool),
                    lives \in TickLives :
                   LoopStep(UpdateResolve(a, touchP, touchO, lives))

Next ==
    \/ StartSignal
    \/ \E rawDt \in RawDeltas : AnimatePlaying(rawDt, MaxSteps)
    \/ AnimateIdle(MaxSteps)
    \/ Update

Spec == Init /\ [][Next]_vars

\* the same loop driven by the script: frames of exactly one fixed step
ScriptedUpdate ==
    /\ pc = "loop"
    /\ \E script \in Scripts :
          /\ script.collect
          /\ LoopStep(ScriptUpdate(Game, script))

\* the same while an effect is active: a power-up of any type is spawned when
\* the interval elapses, and collected as the script collects
StackedUpdate ==
    /\ pc = "loop"
    /\ activePowerUp # None
    /\ \E type \in POWERUP_TYPES :
          LoopStep(UpdateGame(Game, fixedTimeStep, NoObstacleDraw,
                              [spawn |-> TRUE, type |-> type],
                              ScriptTouch(Game, [type |-> type, collect |-> TRUE]),
                              {}, ScriptLives))

NextScript ==
    \/ StartSignal
    \/ AnimatePlaying(fixedTimeStep, ScriptSteps)
    \/ ScriptedUpdate
    \/ StackedUpdate

SpecScript == InitBoot /\ [][NextScript]_vars

\* the program from construction, frames of exactly one fixed step, every
\* outcome of the random draws and of the box tests
NextBoot ==
    \/ StartSignal
    \/ AnimatePlaying(fixedTimeStep, BootSteps)
    \/ AnimateIdle(BootSteps)
    \/ Update

SpecBoot == InitBoot /\ [][NextBoot]_vars

\* the length of a session in which the spawn schedulers are explored
SpawnSteps == 950

\* the scripted session with every outcome of the schedulers' random draws:
\* the player dodges every obstacle and collects or dodges each power-up
CrowdedUpdate ==
    /\ pc = "loop"
    /\ \E od \in ObstacleDraws(obstacleSpawnTimer, fixedTimeStep, score, BOOLEAN),
          pd \in PowerUpDraws(powerupSpawnTimer, fixedTimeStep, score, BOOLEAN),
          collect \in BOOLEAN :
          /\ od.explosive = NoObstacleDraw.explosive
          /\ LoopStep(UpdateGame(Game, fixedTimeStep, od, pd,
                                 ScriptTouch(Game, [type |-> pd.type, collect |-> collect]),
                                 {}, ScriptLives))

NextSpawn ==
    \/ StartSignal
    \/ AnimatePlaying(fixedTimeStep, SpawnSteps)
    \/ CrowdedUpdate

SpecSpawn == InitBoot /\ [][NextSpawn]_vars

\* the program from construction with a clock that can also step back
NextClock ==
    \/ StartSignal
    \/ \E rawDt \in ClockDeltas :
          /\ accumulator + rawDt >= 0 - MaxDebt
          /\ AnimatePlaying(rawDt, MaxSteps)
    \/ AnimateIdle(MaxSteps)
    \/ Update

SpecClock == InitBoot /\ [][NextClock]_vars

\* The window: it is hidden and shown again while real time passes.
VisibleSteps == 4
\* the greatest time the clock is left unread
MaxSince == 700
PassDeltas == {fixedTimeStep, 3 * fixedTimeStep}

\* real time passes
Pass ==
    /\ pc = "idle"
    /\ \E d \in PassDeltas :
          /\ clock.since + d <= MaxSince
          /\ clock' = [clock EXCEPT !.since = @ + d]
          /\ host' = IF host.hidden THEN [host EXCEPT !.away = @ + d]
                     ELSE [host EXCEPT !.seen = @ + d]
    /\ event' = "pass"
    /\ UNCHANGED <<state, score, highScore, scoreTimer, lastMilestone, accumulator,
                   obstaclePool, obstacleSpawnTimer, powerupPool, powerupSpawnTimer,
                   activePowerUp, particlePool, input, player,
                   pc, frame, tick, collected, steps, request>>

\* the visibilitychange handler with document.hidden true
Hide ==
    /\ pc = "idle"
    /\ ~host.hidden
    /\ host' = [host EXCEPT !.hidden = TRUE, !.away = 0,
                            !.seen = IF state = PLAYING THEN 0 ELSE @]
    /\ clock' = IF state = PLAYING THEN ClockStop(clock) ELSE clock
    /\ event' = "hide"
    /\ UNCHANGED <<state, score, highScore, scoreTimer, lastMilestone, accumulator,
                   obstaclePool, obstacleSpawnTimer, powerupPool, powerupSpawnTimer,
                   activePowerUp, particlePool, input, player,
                   pc, frame, tick, collected, steps, request>>

\* the visibilitychange handler with document.hidden false
Show ==
    /\ pc = "idle"
    /\ host.hidden
    /\ host' = [host EXCEPT !.hidden = FALSE,
                            !.seen = IF state = PLAYING THEN 0 ELSE @]
    /\ clock' = IF state = PLAYING THEN ClockStart(clock) ELSE clock
    /\ event' = "show"
    /\ UNCHANGED <<state, score, highScore, scoreTimer, lastMilestone, accumulator,
                   obstaclePool, obstacleSpawnTimer, powerupPool, powerupSpawnTimer,
                   activePowerUp, particlePool, input, player,
                   pc, frame, tick, collected, steps, request>>

\* frames read the clock; a hidden document receives no start signal
NextVisible ==
    \/ Pass
    \/ Hide
    \/ Show
    \/ ~host.hidden /\ StartSignal
    \/ AnimatePlaying(ClockGetDelta(clock).delta, VisibleSteps)
    \/ AnimateIdle(VisibleSteps)
    \/ ScriptedUpdate

SpecVisible == InitBoot /\ [][NextVisible]_vars

\* The keyboard: Space goes down, repeats while held and goes up.
InputSteps == 60

\* keydown with code "Space", a new press or a repeat of the held key: first
\* the listener of InputManager, then the start handler
KeyDownSpace ==
    /\ pc = "idle"
    /\ LET inp == OnKeyDownJump(input)
           g == [Game EXCEPT !.input = inp]
       IN /\ Install(IF state \in {MENU, GAME_OVER} THEN StartGame(g) ELSE g)
          /\ host' = [host EXCEPT !.held = TRUE,
                                  !.sets = (IF host.held THEN @ ELSE 0)
                                           + (IF inp # input THEN 1 ELSE 0),
                                  !.served = IF host.held THEN @ ELSE 0]
    /\ collected' = IF state \in {MENU, GAME_OVER} THEN NoPickup ELSE collected
    /\ event' = "keydown"
    /\ UNCHANGED <<pc, frame, tick, steps, request>>

\* keyup with code "Space"
KeyUpSpace ==
    /\ pc = "idle"
    /\ host.held
    /\ input' = OnKeyUpJump(input)
    /\ host' = [host EXCEPT !.held = FALSE]
    /\ event' = "keyup"
    /\ UNCHANGED <<state, score, highScore, scoreTimer, lastMilestone, accumulator,
                   obstaclePool, obstacleSpawnTimer, powerupPool, powerupSpawnTimer,
                   activePowerUp, particlePool, player, clock,
                   pc, frame, tick, collected, steps, request>>

\* Space goes up while the window has lost the keyboard: no event is delivered
KeyReleasedUnseen ==
    /\ pc = "idle"
    /\ host.held
    /\ host' = [host EXCEPT !.held = FALSE]
    /\ event' = "none"
    /\ UNCHANGED <<state, score, highScore, scoreTimer, lastMilestone, accumulator,
                   obstaclePool, obstacleSpawnTimer, powerupPool, powerupSpawnTimer,
                   activePowerUp, particlePool, input, player, clock,
                   pc, frame, tick, collected, steps, request>>

NextInput ==
    \/ KeyDownSpace
    \/ KeyUpSpace
    \/ KeyReleasedUnseen
    \/ StartSignal
    \/ AnimatePlaying(fixedTimeStep, InputSteps)
    \/ ScriptedUpdate

SpecInput == InitBoot /\ [][NextInput]_vars

\* number of loop iterations and idle frames explored around a restart
RestartSteps == 4

\* the program of Spec with the Space key: sessions that end in a collision
\* and are started again from the keyboard or by a click
NextRestart ==
    \/ KeyDownSpace
    \/ KeyUpSpace
    \/ StartSignal
    \/ \E rawDt \in RawDeltas : AnimatePlaying(rawDt, RestartSteps)
    \/ AnimateIdle(RestartSteps)
    \/ Update

SpecRestart == Init /\ [][NextRestart]_vars

\* the scripted session is taken up when the particles of a burst are about
\* to run out
Fading(g) == \E i \in DOMAIN g.particlePool :
                 g.particlePool[i].active /\ g.particlePool[i].life <= 3 * fixedTimeStep

RECURSIVE StretchFading(_, _, _)
StretchFading(g, script, limit) ==
    IF limit = 0 \/ Fading(g) THEN g
    ELSE StretchFading(ScriptUpdate(g, script).g, script, limit - 1)

RECURSIVE PlayFading(_, _, _)
PlayFading(g, script, limit) ==
    IF limit <= 0 \/ Fading(g) THEN g
    ELSE PlayFading(StretchFading(g, script, Min2(limit, StretchLength)), script,
                    limit - StretchLength)

\* the program in a session in which the particles of a pickup are fading
InitFade ==
    /\ \E hs \in SessionHighScores, type \in POWERUP_TYPES :
          Holds(PlayFading(StartGame(NewGame(hs)), [type |-> type, collect |-> TRUE], ScriptSteps))
    /\ InitHistory

SpecFade == InitFade /\ [][Next]_vars

\* The particle system on its own: a pool of BurstPoolSize particles, burst
\* requests of up to MaxBurst particles, updates and the game-over explosion.

BurstPoolSize == 4
MaxBurst == 3
BurstSteps == 3

BurstLives == ShatterLives \cup ExplosionLives \cup PickupLives

\* the pools of a running session: each slot is unused or holds an active particle
BurstPools == [1..BurstPoolSize -> {NewParticle} \cup {ParticleActivate(NewParticle, l) : l \in BurstLives}]

InitBurst ==
    /\ \E pool \in BurstPools :
          Holds([StartGame(NewGame(0)) EXCEPT !.particlePool = pool])
    /\ InitHistory

\* a burst request on its own: pool is the pool after the request
BurstRequest(kind, count, pool) ==
    /\ pc = "idle"
    /\ state = PLAYING
    /\ steps < BurstSteps
    /\ particlePool' = pool
    /\ request' = [kind |-> kind, count |-> count]
    /\ steps' = steps + 1
    /\ event' = "burst"
    /\ UNCHANGED <<state, score, highScore, scoreTimer, lastMilestone, accumulator,
                   obstaclePool, obstacleSpawnTimer, powerupPool, powerupSpawnTimer,
                   activePowerUp, input, player, clock, host, pc, frame, tick, collected>>

\* this.particles.spawnShatter(position, color, count)
SpawnShatterRequest ==
    \E count \in 1..MaxBurst, lifeOf \in [1..BurstPoolSize -> ShatterLives] :
        BurstRequest("shatter", count, spawnShatter(particlePool, count, lifeOf))

\* this.particles.spawnExplosion(position, count)
SpawnExplosionRequest ==
    \E count \in 1..MaxBurst, lifeOf \in [1..BurstPoolSize -> ExplosionLives] :
        BurstRequest("explosion", count, spawnExplosion(particlePool, count, lifeOf))

\* this.particles.spawnPickup(position, color, count)
SpawnPickupRequest ==
    \E count \in 1..MaxBurst, lifeOf \in [1..BurstPoolSize -> PickupLives] :
        BurstRequest("pickup", count, spawnPickup(particlePool, count, lifeOf))

\* this._gameOver(): the explosion of ExplosionCount particles at the player
GameOverRequest ==
    /\ pc = "idle"
    /\ state = PLAYING
    /\ steps < BurstSteps
    /\ \E lifeOf \in [1..BurstPoolSize -> ExplosionLives] : Install(GameOver(Game, lifeOf))
    /\ request' = [kind |-> "gameOver", count |-> ExplosionCount]
    /\ steps' = steps + 1
    /\ event' = "burst"
    /\ UNCHANGED <<host, pc, frame, tick, collected>>

\* this.particles.update(dt) on its own
ParticlesUpdate ==
    /\ pc = "idle"
    /\ steps < BurstSteps
    /\ \E dt \in {fixedTimeStep, IdleStep} :
          particlePool' = ParticleSystemUpdate(particlePool, dt)
    /\ request' = NoRequest
    /\ steps' = steps + 1
    /\ event' = "particles"
    /\ UNCHANGED <<state, score, highScore, scoreTimer, lastMilestone, accumulator,
                   obstaclePool, obstacleSpawnTimer, powerupPool, powerupSpawnTimer,
                   activePowerUp, input, player, clock, host, pc, frame, tick, collected>>

NextBurst ==
    \/ SpawnShatterRequest
    \/ SpawnExplosionRequest
    \/ SpawnPickupRequest
    \/ GameOverRequest
    \/ ParticlesUpdate

SpecBurst == InitBurst /\ [][NextBurst]_vars

----
\* Properties

\* the fields of the program, without the history
gameVars == <<state, score, highScore, scoreTimer, lastMilestone, accumulator,
              obstaclePool, obstacleSpawnTimer, powerupPool, powerupSpawnTimer,
              activePowerUp, particlePool, input, player, clock>>

\* a step that is one call of _update made while the phase was PLAYING
PlayingTick == state = PLAYING /\ steps' = steps + 1 /\ tick'.ran

AllInactive(pool) == ActiveSlots(pool) = {}
AllActive(pool) == ActiveSlots(pool) = DOMAIN pool

\* C1: a restart from GAME_OVER leaves score 0, every slot of the three pools
\* inactive and no active power-up in the very state in which the phase is
\* PLAYING again.
C1_RestartClears ==
    [][(state = GAME_OVER /\ state' = PLAYING) =>
          /\ score' = 0
          /\ AllInactive(obstaclePool')
          /\ AllInactive(powerupPool')
          /\ AllInactive(particlePool')
          /\ activePowerUp' = None]_vars

\* a session restarted after a fatal hit: the obstacle that ended the previous
\* session was still active at game over and is inactive now
C1_Witness ==
    /\ state = PLAYING
    /\ score = 0
    /\ tick.ran /\ tick.hit # 0 /\ tick.score > 0
    /\ obstaclePool[tick.hit].z # 0
    /\ ~obstaclePool[tick.hit].active
    /\ activePowerUp = None

\* C2: in a PLAYING tick whose obstacle collision is resolved while SHATTER is
\* active, the obstacle found is released, score grows by the periodic
\* increment of the tick plus exactly 5, and the phase stays PLAYING.
C2_ShatterCollision ==
    [][(PlayingTick /\ tick'.hit # 0 /\ hasShatter(activePowerUp')) =>
          /\ ~obstaclePool'[tick'.hit].active
          /\ tick'.points \in {0, 1, 2}
          /\ (tick'.points # 0 => scoreTimer' = 0)
          /\ score' = score + tick'.points + 5
          /\ state' = PLAYING]_vars

\* a shatter in a tick that also had a periodic increment
C2_Witness ==
    /\ state = PLAYING
    /\ tick.ran /\ tick.hit # 0 /\ tick.points > 0
    /\ hasShatter(activePowerUp)
    /\ ~obstaclePool[tick.hit].active
    /\ score = tick.score + tick.points + 5

\* C3: in a PLAYING tick whose obstacle collision is resolved while no
\* power-up or DOUBLE is active, the phase becomes GAME_OVER and score gets
\* the periodic increment only.
C3_FatalCollision ==
    [][(PlayingTick /\ tick'.hit # 0 /\ activePowerUp'.type \in {"NONE", DOUBLE}) =>
          /\ state' = GAME_OVER
          /\ score' = score + tick'.points
          /\ obstaclePool'[tick'.hit].active]_vars

\* a session ended by a collision while DOUBLE was active
C3_Witness ==
    /\ state = GAME_OVER
    /\ tick.ran /\ tick.hit # 0
    /\ hasDouble(activePowerUp)
    /\ score = tick.score + tick.points

\* C4: the pools keep the slot count given at construction, so the number of
\* active entities of a pool never exceeds its capacity.
C4_PoolCapacity ==
    /\ Len(obstaclePool) = ObstaclePoolSize
    /\ Len(powerupPool) = PowerUpPoolSize
    /\ Len(particlePool) = ParticlePoolSize
    /\ Cardinality(ActiveSlots(obstaclePool)) <= ObstaclePoolSize
    /\ Cardinality(ActiveSlots(powerupPool)) <= PowerUpPoolSize
    /\ Cardinality(ActiveSlots(particlePool)) <= ParticlePoolSize

\* all three pools at capacity
C4_Witness ==
    /\ AllActive(obstaclePool)
    /\ AllActive(powerupPool)
    /\ AllActive(particlePool)

\* C5: in a PLAYING tick in which a spawn interval elapses while every slot of
\* that pool is active, no slot is re-activated: every entity keeps its speed
\* and kind and moves only by its own speed, and the tick runs to its end.
C5_ExhaustedSpawn ==
    [][PlayingTick =>
          /\ (obstacleSpawnTimer' = 0 /\ AllActive(obstaclePool)) =>
                \A i \in DOMAIN obstaclePool :
                    /\ obstaclePool'[i].speed = obstaclePool[i].speed
                    /\ obstaclePool'[i].z = Advance(obstaclePool[i].z, obstaclePool[i].speed,
                                                    fixedTimeStep)
                    /\ obstaclePool'[i].active =>
                          obstaclePool'[i].isExplosive = obstaclePool[i].isExplosive
          /\ (powerupSpawnTimer' = 0 /\ AllActive(powerupPool)) =>
                \A i \in DOMAIN powerupPool :
                    /\ powerupPool'[i].speed = powerupPool[i].speed
                    /\ powerupPool'[i].z = Advance(powerupPool[i].z, powerupPool[i].speed,
                                                   fixedTimeStep)
                    /\ powerupPool'[i].active => powerupPool'[i].type = powerupPool[i].type
          /\ accumulator' = accumulator - fixedTimeStep]_vars

\* the state after a tick whose obstacle spawn found the pool exhausted: the
\* timer was reset and no obstacle stands one step behind the far plane
C5_Witness ==
    /\ state = PLAYING
    /\ tick.ran
    /\ obstacleSpawnTimer = 0
    /\ AllActive(obstaclePool)
    /\ \A i \in DOMAIN obstaclePool :
          obstaclePool[i].z > spawnZ + obstaclePool[i].speed

C7_Expiry ==
    collected.type # "NONE" =>
        /\ collected.elapsed > Duration(collected.type) => activePowerUp = None
        /\ collected.elapsed < Duration(collected.type) =>
              /\ activePowerUp.type = collected.type
              /\ activePowerUp.timeLeft = Duration(collected.type) - collected.elapsed

\* SHIELD one fixed step after its 5 s
C7_Witness ==
    /\ collected.type = SHIELD
    /\ collected.elapsed = Duration(SHIELD) + fixedTimeStep
    /\ activePowerUp = None

\* C8: at the end of every PLAYING tick less than 0.1 s is on the score timer
\* (the increment fires once per 0.1 s of simulated time), and an increment
\* adds 2 under DOUBLE and 1 otherwise.
C8_PeriodicScore ==
    /\ [](state = PLAYING => scoreTimer < ScoreInterval)
    /\ [][(PlayingTick /\ tick'.points # 0 /\ tick'.pickup = 0) =>
            tick'.points = IF hasDouble(activePowerUp') THEN 2 ELSE 1]_vars

\* C9: the difficulty computed in a tick is clamp(score / 50, 0, 3), the same
\* in the game loop and in both managers, and it is non-decreasing over the
\* scores reached.
C9_Difficulty ==
    /\ tick.ran =>
          /\ tick.obstacleDifficulty = tick.difficulty
          /\ tick.powerupDifficulty = tick.difficulty
          /\ tick.difficulty >= 0
          /\ tick.difficulty <= 3 * DifficultyScale
          /\ tick.score >= 150 => tick.difficulty = 3 * DifficultyScale
          /\ tick.score < 150 => tick.difficulty = tick.score
    /\ \A s \in 0..score :
          /\ GameDifficulty(s) <= GameDifficulty(score)
          /\ ObstacleDifficulty(s) <= ObstacleDifficulty(score)
          /\ PowerUpDifficulty(s) <= PowerUpDifficulty(score)

\* a tick at a score above 150
C9_Witness ==
    /\ tick.ran
    /\ tick.score > 150
    /\ tick.difficulty = 3 * DifficultyScale

\* C10: score is a natural number and no step lowers it except a start or
\* restart, which sets it to 0.
C10_ScoreMonotone ==
    /\ [](score \in Nat)
    /\ [][score' >= score \/
          (state \in {MENU, GAME_OVER} /\ state' = PLAYING /\ score' = 0)]_vars

\* a restart after a session that set a new high score
C10_Witness ==
    /\ state = PLAYING
    /\ score = 0
    /\ highScore > 150

\* C11: the active power-up is one record or none, and a pickup installs the
\* kind of the collected entity with the full duration of that kind whatever
\* effect was active before.
C11_LastPickupWins ==
    /\ [](\/ activePowerUp = None
          \/ /\ DOMAIN activePowerUp = {"type", "timeLeft"}
             /\ activePowerUp.type \in POWERUP_TYPES
             /\ activePowerUp.timeLeft \in 0..Duration(activePowerUp.type))
    /\ [][(PlayingTick /\ tick'.pickup # 0) =>
            activePowerUp' = [type |-> tick'.pickupType,
                              timeLeft |-> Duration(tick'.pickupType)]]_vars

\* a pickup of another kind while an effect still had time left
C11_Witness ==
    /\ tick.ran /\ tick.pickup # 0
    /\ tick.effect # None
    /\ tick.effect.type # tick.pickupType
    /\ tick.effect.timeLeft > 0
    /\ activePowerUp = [type |-> tick.pickupType, timeLeft |-> Duration(tick.pickupType)]

\* C12: the phase is MENU at first; it changes only from MENU or GAME_OVER to
\* PLAYING by a start signal and from PLAYING to GAME_OVER by a tick with an
\* unprotected obstacle hit; a start signal always leaves MENU and GAME_OVER,
\* changes nothing while PLAYING, and MENU is never entered.
C12_Phases ==
    /\ state = MENU
    /\ [](state \in States)
    /\ [][(state' # state =>
              \/ state \in {MENU, GAME_OVER} /\ state' = PLAYING /\ event' = "start"
              \/ /\ state = PLAYING /\ state' = GAME_OVER
                 /\ event' = "tick" /\ tick'.ran /\ tick'.hit # 0
                 /\ ~hasShield(activePowerUp') /\ ~hasShatter(activePowerUp'))
           /\ (state' = MENU => state = MENU)
           /\ ((event' = "start" /\ state \in {MENU, GAME_OVER}) => state' = PLAYING)
           /\ ((event' = "start" /\ state = PLAYING) => gameVars' = gameVars)
           /\ ((state = GAME_OVER /\ event' # "start") => state' = GAME_OVER)]_vars

\* a session started from the menu, ended by a hit and started again
C12_Witness ==
    /\ state = PLAYING
    /\ event = "start"
    /\ tick.ran /\ tick.hit # 0
    /\ frame.playing
    /\ highScore > 0

\* C13: a milestone event fires once for every multiple of 50 the score
\* crosses: an event moves lastMilestone by exactly one boundary, and when the
\* session has ended every boundary the score crossed has had its event.
C13_Milestones ==
    /\ [][(state = PLAYING /\ lastMilestone' # lastMilestone) =>
            /\ tick'.ran /\ tick'.milestone
            /\ lastMilestone' = lastMilestone + 1]_vars
    /\ [](state = GAME_OVER => lastMilestone = score \div MilestoneEvery)

\* C14: a frame never lowers the accumulator through its delta, never adds
\* more than 0.1 s to it, and never runs more than 6 fixed steps.
C14_DeltaClamped ==
    /\ [][event' = "frame" =>
            /\ accumulator' >= accumulator
            /\ accumulator' - accumulator <= MaxDelta]_vars
    /\ [](frame.playing => frame.ticks <= 6)

\* C15: highScore changes only in the step that enters GAME_OVER and only when
\* the session's score is above it, and then it becomes that score; so it
\* never decreases and is at least the score in every GAME_OVER state.
C15_HighScore ==
    /\ [][highScore' # highScore =>
            /\ state = PLAYING /\ state' = GAME_OVER
            /\ score' > highScore
            /\ highScore' = score']_vars
    /\ [][(state = PLAYING /\ state' = GAME_OVER) =>
            highScore' = IF score' > highScore THEN score' ELSE highScore]_vars
    /\ [][highScore' >= highScore]_vars
    /\ [](state = GAME_OVER => highScore >= score)

\* a session that ended with a new high score
C15_Witness ==
    /\ state = GAME_OVER
    /\ event = "tick"
    /\ tick.hit # 0
    /\ highScore = score
    /\ highScore \notin HighScores \cup SessionHighScores

\* C16: while the phase stays MENU or GAME_OVER nothing is spawned or moved,
\* score and timers stand still and no collision is processed; every idle
\* frame takes 0.016 s off the life of each active particle and releases the
\* particle when its life has run out.
C16_Suspended ==
    /\ [][(state \in {MENU, GAME_OVER} /\ state' = state) =>
            /\ obstaclePool' = obstaclePool
            /\ powerupPool' = powerupPool
            /\ obstacleSpawnTimer' = obstacleSpawnTimer
            /\ powerupSpawnTimer' = powerupSpawnTimer
            /\ activePowerUp' = activePowerUp
            /\ score' = score
            /\ scoreTimer' = scoreTimer
            /\ lastMilestone' = lastMilestone
            /\ highScore' = highScore
            /\ (tick' = tick \/ tick' = NoTick)]_vars
    /\ [][(state \in {MENU, GAME_OVER} /\ event' = "idle" /\ steps' = steps + 1) =>
            \A i \in DOMAIN particlePool :
                IF particlePool[i].active
                THEN /\ particlePool'[i].life = particlePool[i].life - IdleStep
                     /\ particlePool'[i].active = (particlePool'[i].life > 0)
                ELSE particlePool'[i] = particlePool[i]]_vars

\* a GAME_OVER state in which an idle frame has just released a particle of
\* the explosion while the obstacle that was hit is still in place
C16_Witness ==
    /\ state = GAME_OVER
    /\ event = "idle"
    /\ tick.hit # 0 /\ obstaclePool[tick.hit].active
    /\ \E i \in DOMAIN particlePool :
          /\ ~particlePool[i].active
          /\ particlePool[i].life <= 0
          /\ particlePool[i].life > 0 - IdleStep

\* C17: in a PLAYING tick whose obstacle collision is resolved while SHIELD is
\* active, the obstacle found is released, score gets the periodic increment
\* only, and the phase stays PLAYING.
C17_ShieldCollision ==
    [][(PlayingTick /\ tick'.hit # 0 /\ hasShield(activePowerUp')) =>
          /\ ~hasShatter(activePowerUp')
          /\ ~obstaclePool'[tick'.hit].active
          /\ score' = score + tick'.points
          /\ state' = PLAYING]_vars

\* an obstacle passed through under SHIELD
C17_Witness ==
    /\ state = PLAYING
    /\ event = "tick"
    /\ tick.ran /\ tick.hit # 0
    /\ hasShield(activePowerUp)
    /\ ~obstaclePool[tick.hit].active
    /\ score = tick.score + tick.points

\* C18: a tick that resolves a collision leaves the active power-up as the
\* countdown and the pickup of that tick left it; an effect changes only by
\* the countdown of one step, by running out, by a pickup or by a restart.
C18_NotConsumed ==
    /\ [][(PlayingTick /\ tick'.hit # 0) =>
            activePowerUp' = IF tick'.pickup # 0
                             THEN [type |-> tick'.pickupType,
                                   timeLeft |-> Duration(tick'.pickupType)]
                             ELSE tick'.effect]_vars
    /\ [][(activePowerUp # None /\ activePowerUp' # activePowerUp) =>
            \/ event' = "start" /\ state # PLAYING /\ activePowerUp' = None
            \/ PlayingTick /\ tick'.pickup # 0
            \/ /\ PlayingTick
               /\ activePowerUp' =
                     [activePowerUp EXCEPT !.timeLeft = @ - fixedTimeStep]
            \/ /\ PlayingTick
               /\ activePowerUp' = None
               /\ activePowerUp.timeLeft <= fixedTimeStep]_vars

\* two obstacles destroyed during one activation, the effect still running
C18_Witness ==
    /\ state = PLAYING
    /\ event = "tick"
    /\ tick.ran /\ tick.hit # 0
    /\ activePowerUp.type \in {SHATTER, SHIELD}
    /\ activePowerUp = tick.effect
    /\ \E i, j \in DOMAIN obstaclePool :
          /\ i # j
          /\ ~obstaclePool[i].active /\ obstaclePool[i].speed # 0
          /\ obstaclePool[i].z <= despawnZ
          /\ ~obstaclePool[j].active /\ obstaclePool[j].speed # 0
          /\ obstaclePool[j].z <= despawnZ

\* C19: the active power-up becomes a kind only in a tick that collects a
\* power-up entity; every pickup leaves that entity inactive and installs its
\* kind with 5 s (SHIELD), 8 s (DOUBLE) or 6 s (SHATTER), whatever the score.
C19_Pickup ==
    /\ [][(activePowerUp = None /\ activePowerUp' # None) =>
            PlayingTick /\ tick'.pickup # 0]_vars
    /\ [][(PlayingTick /\ tick'.pickup # 0) =>
            /\ tick'.pickup \in DOMAIN powerupPool
            /\ ~powerupPool'[tick'.pickup].active
            /\ powerupPool[tick'.pickup].active =>
                  powerupPool[tick'.pickup].type = tick'.pickupType
            /\ activePowerUp'.type = tick'.pickupType
            /\ activePowerUp'.timeLeft =
                  CASE tick'.pickupType = SHIELD -> 5 * Second
                    [] tick'.pickupType = DOUBLE -> 8 * Second
                    [] tick'.pickupType = SHATTER -> 6 * Second]_vars

\* a pickup with no effect active at the highest difficulty
C19_Witness ==
    /\ event = "tick"
    /\ tick.ran /\ tick.pickup # 0
    /\ tick.effect = None
    /\ tick.difficulty = DifficultyCap * DifficultyScale
    /\ activePowerUp = [type |-> DOUBLE, timeLeft |-> 8 * Second]
    /\ ~powerupPool[tick.pickup].active

\* the least slot of a set of slots, 0 for the empty set
LeastSlot(S) == IF S = {} THEN 0 ELSE CHOOSE i \in S : \A j \in S : i <= j

\* C20: in a PLAYING tick an entity spawned by the scheduler is advanced in the
\* same tick, a pickup installs the full duration after the countdown, the
\* obstacle collision is resolved with the effect the pickup of the same tick
\* left, each scan returns the first intersecting active slot, and at most one
\* power-up and at most one obstacle are deactivated by the collisions.
C20_TickOrder ==
    [][PlayingTick =>
        /\ \A i \in DOMAIN obstaclePool :
              (~obstaclePool[i].active /\ i \in tick'.activeO) =>
                 i \in DOMAIN obstaclePool' /\ obstaclePool'[i].z > spawnZ
        /\ \A i \in DOMAIN powerupPool :
              (~powerupPool[i].active /\ i \in tick'.activeP /\ i # tick'.pickup) =>
                 powerupPool'[i].z > spawnZ
        /\ tick'.pickup = LeastSlot(tick'.touchP \cap tick'.activeP)
        /\ tick'.hit = LeastSlot(tick'.touchO \cap tick'.activeO)
        /\ tick'.pickup # 0 => activePowerUp'.timeLeft = Duration(tick'.pickupType)
        /\ tick'.pickup = 0 => activePowerUp' = tick'.effect
        /\ tick'.hit # 0 =>
              (state' = GAME_OVER <=> activePowerUp'.type \notin {SHATTER, SHIELD})
        /\ tick'.hit = 0 => state' = PLAYING
        /\ {i \in tick'.activeP : ~powerupPool'[i].active} =
              (IF tick'.pickup = 0 THEN {} ELSE {tick'.pickup})
        /\ {i \in tick'.activeO : ~obstaclePool'[i].active} =
              (IF tick'.hit = 0 \/ state' = GAME_OVER THEN {} ELSE {tick'.hit})]_vars

\* a tick in which both obstacles of the pool intersect the player, a shield is
\* collected, the first obstacle is destroyed and the second is left active
C20_Witness ==
    /\ event = "tick" /\ tick.ran
    /\ state = PLAYING
    /\ tick.effect.type \notin {SHATTER, SHIELD}
    /\ tick.pickup # 0 /\ tick.pickupType = SHIELD
    /\ Cardinality(tick.touchO \cap tick.activeO) >= 2
    /\ tick.hit = LeastSlot(tick.touchO)
    /\ ~obstaclePool[tick.hit].active
    /\ \E j \in tick.touchO : j # tick.hit /\ obstaclePool[j].active

\* C21: in a PLAYING tick in which the obstacle timer reaches the interval the
\* timer ends at 0 and one to three spawn attempts are made, more than one only
\* above score 50 and three only above score 125; otherwise the timer grows by
\* the step and nothing is attempted.  The power-up timer ends at 0 whenever
\* its interval elapses, with or without a spawn.
C21_SpawnTimers ==
    [][PlayingTick =>
        LET to == obstacleSpawnTimer + fixedTimeStep
            tp == powerupSpawnTimer + fixedTimeStep
            fresh == {i \in DOMAIN obstaclePool : ~obstaclePool[i].active /\ i \in tick'.activeO}
        IN /\ ObstacleIntervalElapsed(to, score) =>
                /\ obstacleSpawnTimer' = 0
                /\ tick'.attempts \in 1..3
                /\ tick'.attempts >= 2 => score > 50
                /\ tick'.attempts = 3 => score > 125
                /\ Cardinality(fresh) =
                      Min2(tick'.attempts, Cardinality(DOMAIN obstaclePool \ ActiveSlots(obstaclePool)))
           /\ ~ObstacleIntervalElapsed(to, score) =>
                obstacleSpawnTimer' = to /\ tick'.attempts = 0 /\ fresh = {}
           /\ PowerUpIntervalElapsed(tp, score) => powerupSpawnTimer' = 0
           /\ ~PowerUpIntervalElapsed(tp, score) =>
                powerupSpawnTimer' = tp /\ tick'.spawned = 0]_vars

\* three spawn attempts in one tick above score 125, in a session whose
\* power-up timer has been reset without any power-up ever being spawned
C21_Witness ==
    /\ event = "tick" /\ tick.ran
    /\ tick.attempts = 3
    /\ tick.score > 125
    /\ obstacleSpawnTimer = 0
    /\ powerupSpawnTimer < steps * fixedTimeStep
    /\ powerupPool = [i \in DOMAIN powerupPool |-> NewPowerUp]

\* what a PLAYING tick does to entity i of a pool: activated entities start at
\* the far plane and have moved one step, an entity whose next position is
\* beyond the near plane is released, any other entity that stays active has
\* moved one step at its own speed
EntityStep(old, new, i, results, resolved, speed) ==
    /\ (~old[i].active /\ new[i].active) =>
          new[i].z = Advance(spawnZ, speed, fixedTimeStep) /\ new[i].speed = speed
    /\ (old[i].active /\ Advance(old[i].z, old[i].speed, fixedTimeStep) > despawnZ) =>
          ~new[i].active
    /\ (old[i].active /\ Advance(old[i].z, old[i].speed, fixedTimeStep) <= despawnZ) =>
          /\ new[i].z = Advance(old[i].z, old[i].speed, fixedTimeStep)
          /\ new[i].z >= old[i].z + baseSpeed
          /\ new[i].active <=> ~(i \in results /\ resolved)

\* C22: obstacles and power-ups are activated at the far plane, are released in
\* the first PLAYING tick that takes them beyond the near plane unless a
\* collision removed them before, and no active entity is ever beyond the near
\* plane; an entity that stays active gains at least the base speed times the
\* step in Z in every PLAYING tick, so it is released after boundedly many.
C22_Despawn ==
    /\ [](\A i \in DOMAIN obstaclePool :
            obstaclePool[i].active => obstaclePool[i].z \in spawnZ..despawnZ)
    /\ [](\A i \in DOMAIN powerupPool :
            powerupPool[i].active => powerupPool[i].z \in spawnZ..despawnZ)
    /\ [][PlayingTick =>
            /\ \A i \in DOMAIN obstaclePool :
                  EntityStep(obstaclePool, obstaclePool', i, {tick'.hit},
                             state' = PLAYING, ObstacleSpeed(score))
            /\ \A i \in DOMAIN powerupPool :
                  EntityStep(powerupPool, powerupPool', i, {tick'.pickup},
                             TRUE, PowerUpSpeed(score))]_vars

\* an obstacle and a power-up that were released beyond the near plane
C22_Witness ==
    /\ state = PLAYING
    /\ \E i \in DOMAIN obstaclePool : ~obstaclePool[i].active /\ obstaclePool[i].z > despawnZ
    /\ \E i \in DOMAIN powerupPool : ~powerupPool[i].active /\ powerupPool[i].z > despawnZ

\* the slots a step activated
Activated == {i \in DOMAIN particlePool : ~particlePool[i].active /\ particlePool'[i].active}

\* C23: a burst request of count n on a pool with f inactive slots activates
\* exactly min(n, f) particles with a life of the burst's kind, leaves every
\* other slot as it was and keeps the pool's size; the game-over explosion
\* does the same with its count and still ends the session.
C23_Bursts ==
    [][(event' = "burst" /\ steps' = steps + 1) =>
         LET f == Cardinality(DOMAIN particlePool \ ActiveSlots(particlePool))
         IN /\ request'.count >= 1
            /\ DOMAIN particlePool' = DOMAIN particlePool
            /\ Cardinality(Activated) = Min2(request'.count, f)
            /\ \A i \in DOMAIN particlePool \ Activated : particlePool'[i] = particlePool[i]
            /\ \A i \in Activated :
                  particlePool'[i].life \in
                     CASE request'.kind = "shatter" -> ShatterLives
                       [] request'.kind = "pickup" -> PickupLives
                       [] OTHER -> ExplosionLives
            /\ request'.kind = "gameOver" => state' = GAME_OVER]_vars

\* a game-over explosion that found one free slot, the last one, after a burst
\* of two into three free slots next to an active particle that kept its life
C23_Witness ==
    /\ event = "burst"
    /\ request.kind = "gameOver"
    /\ steps = 2
    /\ state = GAME_OVER
    /\ AllActive(particlePool)
    /\ particlePool[1].life \in ShatterLives
    /\ particlePool[2].life \in PickupLives
    /\ particlePool[3].life \in PickupLives
    /\ particlePool[BurstPoolSize].life \in ExplosionLives

\* the greatest life a burst gives a particle
MaxLife == CHOOSE l \in BurstLives : \A m \in BurstLives : m <= l

\* what one particle update of step dt does to slot i, followed by bursts that
\* may take a released slot again within the same tick
ParticleStep(i, dt) ==
    LET life == particlePool[i].life - dt
    IN IF ~particlePool[i].active
       THEN particlePool'[i] = particlePool[i] \/
            (particlePool'[i].active /\ particlePool'[i].life \in BurstLives)
       ELSE IF life > 0
       THEN particlePool'[i].active /\ particlePool'[i].life = life
       ELSE \/ ~particlePool'[i].active /\ particlePool'[i].life = life
            \/ particlePool'[i].active /\ particlePool'[i].life \in BurstLives

\* C24: a PLAYING tick takes the fixed step and an idle frame 0.016 s off the
\* life of every active particle and releases the particle whose life is then
\* <= 0; an active particle always has a life in (0, greatest life], so it
\* is released after boundedly many updates in either kind of step.
C24_ParticleDecay ==
    /\ [](\A i \in DOMAIN particlePool :
            particlePool[i].active => particlePool[i].life > 0 /\ particlePool[i].life <= MaxLife)
    /\ [][PlayingTick => \A i \in DOMAIN particlePool : ParticleStep(i, fixedTimeStep)]_vars
    /\ [][(event' = "idle" /\ steps' = steps + 1) =>
            \A i \in DOMAIN particlePool :
                /\ ParticleStep(i, IdleStep)
                /\ particlePool'[i].active => particlePool[i].active]_vars

\* a PLAYING tick has just released a particle of a pickup burst
C24_Witness ==
    /\ state = PLAYING
    /\ event = "tick" /\ tick.ran
    /\ \E i \in DOMAIN particlePool :
          /\ ~particlePool[i].active
          /\ particlePool[i].life <= 0
          /\ particlePool[i].life > 0 - fixedTimeStep

\* C25: the jump request is raised at most once and consumed at most once
\* between two presses of Space; a keydown while _jumpPressed is set changes
\* nothing in the input; a PLAYING tick consumes the request exactly if it is
\* raised, leaves it cleared, and the player jumps only on a consumed request
\* and only from the ground.
C25_JumpOneShot ==
    /\ [](host.sets <= 1 /\ host.served <= 1)
    /\ [][(event' = "keydown" /\ input.jumpPressed) => input' = input]_vars
    /\ [][(event' = "keydown" /\ ~input.jumpPressed) =>
            input' = [jump |-> TRUE, jumpPressed |-> TRUE]]_vars
    /\ [][(event' = "keyup") => input' = [input EXCEPT !.jumpPressed = FALSE]]_vars
    /\ [][PlayingTick =>
            /\ tick'.consumed <=> input.jump
            /\ ~input'.jump
            /\ input'.jumpPressed = input.jumpPressed
            /\ tick'.jumped <=> (input.jump /\ player.isGrounded)
            /\ tick'.jumped => ~player'.isGrounded
            /\ (~tick'.jumped /\ ~player.isGrounded /\ ~player'.isGrounded) =>
                  player'.velocityY < player.velocityY]_vars

\* Space is still held after one jump that has ended on the ground, a repeated
\* keydown has just arrived, and no second request is pending
C25_Witness ==
    /\ state = PLAYING
    /\ event = "keydown"
    /\ host.held /\ host.sets = 1 /\ host.served = 1
    /\ input = [jump |-> FALSE, jumpPressed |-> TRUE]
    /\ player.isGrounded
    /\ steps > 40

\* C26: the bounding boxes tested in a PLAYING tick are those of entities
\* that are active after the updates of the tick, each box was computed in
\* this tick from the position the entity has at the test, also for an entity
\* spawned in the tick, and no other box is tested.
C26_FreshBoxes ==
    [][PlayingTick =>
        /\ DOMAIN tick'.boxO \subseteq tick'.activeO
        /\ DOMAIN tick'.boxP \subseteq tick'.activeP
        /\ \A i \in DOMAIN tick'.boxO :
              /\ tick'.boxO[i] = BoxAt(obstaclePool'[i].z)
              /\ tick'.boxO[i] # obstaclePool[i].box
        /\ \A i \in DOMAIN tick'.boxP :
              /\ tick'.boxP[i] = BoxAt(powerupPool'[i].z)
              /\ tick'.boxP[i] # powerupPool[i].box
        /\ tick'.hit # 0 => tick'.hit \in DOMAIN tick'.boxO
        /\ tick'.pickup # 0 => tick'.pickup \in DOMAIN tick'.boxP
        /\ \A i \in tick'.activeO : i \notin DOMAIN tick'.boxO => tick'.hit \in 1..(i - 1)
        /\ \A i \in tick'.activeP : i \notin DOMAIN tick'.boxP => tick'.pickup \in 1..(i - 1)]_vars

\* a tick that spawned an obstacle into a slot whose old box lay beyond the
\* near plane and tested its new box, while the other slot was inactive
C26_Witness ==
    /\ event = "tick" /\ tick.ran
    /\ tick.attempts >= 1
    /\ \E i \in DOMAIN tick.boxO :
          /\ obstaclePool[i].z = Advance(spawnZ, obstaclePool[i].speed, fixedTimeStep)
          /\ tick.boxO[i] = BoxAt(obstaclePool[i].z)
    /\ \E j \in DOMAIN obstaclePool :
          j \notin DOMAIN tick.boxO /\ ~obstaclePool[j].active /\ obstaclePool[j].box.set

\* C27: while the document is hidden in a PLAYING session the clock is
\* stopped, no tick runs and the accumulator stands still; a frame adds at
\* most the time that passed in view since a frame last read the clock, so
\* the time passed out of view never reaches the accumulator.
C27_HiddenPaused ==
    /\ []((state = PLAYING /\ host.hidden) => ~clock.running /\ pc = "idle")
    /\ [][(state = PLAYING /\ host.hidden) =>
            /\ accumulator' = accumulator
            /\ steps' = steps
            /\ tick' = tick
            /\ state' = PLAYING]_vars
    /\ [][(event' = "frame" /\ frame' # frame) =>
            /\ frame'.raw <= host.seen
            /\ accumulator' - accumulator = Min2(frame'.raw, MaxDelta)
            /\ host.hidden => frame'.raw = 0]_vars
    /\ [][(event' = "show" /\ state = PLAYING) => clock'.running /\ clock'.since = 0]_vars

\* the first frame in view after 0.1 s out of view in a PLAYING session: it
\* adds the one step that passed since the window was shown and runs one tick
C27_Witness ==
    /\ state = PLAYING
    /\ ~host.hidden
    /\ event = "tick"
    /\ frame.playing /\ frame.ticks = 1
    /\ frame.away >= 6 * fixedTimeStep
    /\ frame.raw = fixedTimeStep
    /\ pc = "idle"

\* C28: when a frame that began in PLAYING has run its loop, the accumulator
\* lies in [0, fixedTimeStep), also when the session ended inside the frame;
\* after the fatal tick the loop goes on while a whole step is left, and each
\* of these iterations takes one step off the accumulator and changes nothing
\* else of the game.
C28_Drained ==
    /\ []((frame.playing /\ pc = "idle") => accumulator \in 0..(fixedTimeStep - 1))
    /\ []((pc = "loop" /\ state = GAME_OVER) => frame.playing /\ accumulator >= fixedTimeStep)
    /\ [][(pc = "loop" /\ state = PLAYING /\ state' = GAME_OVER) =>
            pc' = IF accumulator' >= fixedTimeStep THEN "loop" ELSE "idle"]_vars
    /\ [][(pc = "loop" /\ state = GAME_OVER) =>
            /\ accumulator' = accumulator - fixedTimeStep
            /\ pc' = IF accumulator' >= fixedTimeStep THEN "loop" ELSE "idle"
            /\ frame'.ticks = frame.ticks + 1
            /\ ~tick'.ran
            /\ state' = GAME_OVER
            /\ score' = score
            /\ highScore' = highScore
            /\ scoreTimer' = scoreTimer
            /\ lastMilestone' = lastMilestone
            /\ obstaclePool' = obstaclePool
            /\ powerupPool' = powerupPool
            /\ particlePool' = particlePool
            /\ obstacleSpawnTimer' = obstacleSpawnTimer
            /\ powerupSpawnTimer' = powerupSpawnTimer
            /\ activePowerUp' = activePowerUp
            /\ player' = player
            /\ input' = input]_vars

\* the end of a frame of 0.1 s on a remainder of half a step whose session was
\* ended by a collision: six iterations, the last of them after the game was
\* over, and the half step is left
C28_Witness ==
    /\ state = GAME_OVER
    /\ pc = "idle"
    /\ event = "tick"
    /\ frame.playing
    /\ frame.acc = 650
    /\ frame.ticks = 6
    /\ ~tick.ran
    /\ accumulator = 50

\* C29: the tick of the fatal collision leaves the obstacle that was hit
\* active and leaves the effect as the tick's update and pickup made it; while
\* the phase stays GAME_OVER score, obstacle pool, power-up pool and active
\* effect do not change; GAME_OVER is only left by the restart, which clears
\* them.
C29_FrozenAfterDeath ==
    /\ [][(state = PLAYING /\ state' = GAME_OVER) =>
            /\ tick'.ran /\ tick'.hit # 0
            /\ obstaclePool'[tick'.hit].active
            /\ activePowerUp' = IF tick'.pickup # 0
                                 THEN [type |-> tick'.pickupType,
                                       timeLeft |-> Duration(tick'.pickupType)]
                                 ELSE tick'.effect
            /\ activePowerUp'.type \in {None.type, DOUBLE}
            /\ score' = score + tick'.points]_vars
    /\ [][(state = GAME_OVER /\ state' = GAME_OVER) =>
            /\ score' = score
            /\ obstaclePool' = obstaclePool
            /\ powerupPool' = powerupPool
            /\ activePowerUp' = activePowerUp]_vars
    /\ [][(state = GAME_OVER /\ state' # GAME_OVER) =>
            /\ event' = "start"
            /\ state' = PLAYING
            /\ score' = 0
            /\ activePowerUp' = None
            /\ AllInactive(obstaclePool')
            /\ AllInactive(powerupPool')]_vars

\* an idle frame after a session that ended under DOUBLE: the obstacle that
\* was hit is still active, the effect still has time left and the final
\* score stands
C29_Witness ==
    /\ state = GAME_OVER
    /\ event = "idle"
    /\ tick.ran /\ tick.hit # 0
    /\ obstaclePool[tick.hit].active
    /\ activePowerUp.type = DOUBLE
    /\ activePowerUp.timeLeft > 0
    /\ score > 0

\* C30: in a PLAYING tick that touches an obstacle the outcome follows the
\* effect as the countdown and the pickup of this tick left it: a SHIELD or
\* SHATTER collected in the tick protects, a DOUBLE collected in the tick
\* does not, and an effect that ran out in the tick does not; the periodic
\* increment of the tick is doubled only if DOUBLE was active after the
\* countdown and before the pickup, so a DOUBLE collected in the tick does
\* not double it.
C30_SameTick ==
    /\ [][(PlayingTick /\ tick'.hit # 0 /\ tick'.pickup # 0
             /\ tick'.pickupType \in {SHIELD, SHATTER}) =>
            /\ state' = PLAYING
            /\ ~obstaclePool'[tick'.hit].active
            /\ score' = score + tick'.points
                         + (IF tick'.pickupType = SHATTER THEN ShatterBonus ELSE 0)]_vars
    /\ [][(PlayingTick /\ tick'.hit # 0 /\ tick'.pickup # 0
             /\ tick'.pickupType = DOUBLE) => state' = GAME_OVER]_vars
    /\ [][(PlayingTick /\ tick'.hit # 0 /\ tick'.pickup = 0
             /\ activePowerUp # None /\ tick'.effect = None) =>
            /\ TimeLeftExpired(activePowerUp.timeLeft - fixedTimeStep)
            /\ state' = GAME_OVER
            /\ obstaclePool'[tick'.hit].active]_vars
    /\ [][PlayingTick =>
            /\ tick'.points \in {0, IF hasDouble(tick'.effect) THEN 2 ELSE 1}
            /\ tick'.points > 0 <=> scoreTimer' = 0
            /\ (tick'.pickup # 0 /\ ~hasDouble(tick'.effect)) => tick'.points <= 1
            /\ hasDouble(tick'.effect) <=>
                  /\ hasDouble(activePowerUp)
                  /\ ~TimeLeftExpired(activePowerUp.timeLeft - fixedTimeStep)]_vars

\* a tick that collected SHATTER with no effect active before and touched an
\* obstacle: the session goes on, the obstacle is gone and the bonus is paid
C30_Witness ==
    /\ state = PLAYING
    /\ event = "tick"
    /\ tick.ran /\ tick.hit # 0 /\ tick.pickup # 0
    /\ tick.pickupType = SHATTER
    /\ tick.effect = None
    /\ ~obstaclePool[tick.hit].active
    /\ score = tick.score + tick.points + ShatterBonus

\* the number of milestone boundaries the score has crossed without an event
MilestoneLag == score \div MilestoneEvery - lastMilestone

\* a tick whose shatter bonus took the score across a multiple of 50
ShatterCrossing ==
    /\ PlayingTick
    /\ tick'.hit # 0
    /\ hasShatter(activePowerUp')
    /\ score' = score + tick'.points + ShatterBonus
    /\ score' \div MilestoneEvery = (score' - ShatterBonus) \div MilestoneEvery + 1

\* C31: lastMilestone never exceeds floor(score / 50) and is behind it by at
\* most 1; it never decreases while the session is PLAYING; a tick with a
\* periodic increment brings it up to the score it incremented to, any other
\* tick leaves it; a lag of 1 only arises, or survives a periodic increment,
\* in a tick whose shatter bonus crossed a boundary; while it lasts the score
\* grows by shatter bonuses only, and it ends with the next periodic increment
\* or the restart.
C31_MilestoneLag ==
    /\ [](MilestoneLag \in {0, 1})
    /\ [][state = PLAYING => lastMilestone' >= lastMilestone]_vars
    /\ [][PlayingTick =>
            lastMilestone' = IF tick'.points > 0
                             THEN (score + tick'.points) \div MilestoneEvery
                             ELSE lastMilestone]_vars
    /\ [][(MilestoneLag' = 1 /\ (MilestoneLag = 0 \/ (PlayingTick /\ tick'.points > 0))) =>
            ShatterCrossing]_vars
    /\ [][(MilestoneLag = 1 /\ MilestoneLag' = 1 /\ ~ShatterCrossing) =>
            /\ lastMilestone' = lastMilestone
            /\ score' \in {score, score + ShatterBonus}]_vars
    /\ [][(MilestoneLag = 1 /\ MilestoneLag' = 0) =>
            \/ PlayingTick /\ tick'.points > 0
            \/ event' = "start" /\ state # PLAYING /\ score' = 0 /\ lastMilestone' = 0]_vars

\* a PLAYING tick without a periodic increment and without a collision that
\* began and ended one milestone behind the score
C31_Witness ==
    /\ state = PLAYING
    /\ event = "tick"
    /\ tick.ran /\ tick.points = 0 /\ tick.hit = 0
    /\ score = tick.score
    /\ score >= MilestoneEvery
    /\ MilestoneLag = 1

\* C32: a Space keydown in MENU or GAME_OVER with the key up before raises
\* the jump request and starts the session in the same event, and the start
\* leaves the request in place; a start by click or touch leaves the input as
\* it is; a pending request stays until a PLAYING tick; the first tick of a
\* session that finds a request consumes it and the player, grounded by the
\* reset, jumps.
C32_PendingJump ==
    /\ [][(event' = "keydown" /\ state \in {MENU, GAME_OVER}) =>
            /\ state' = PLAYING
            /\ score' = 0 /\ scoreTimer' = 0
            /\ player'.isGrounded
            /\ ~input.jumpPressed => input' = [jump |-> TRUE, jumpPressed |-> TRUE]
            /\ input.jumpPressed => input' = input]_vars
    /\ [][(event' = "start" /\ state \in {MENU, GAME_OVER}) =>
            state' = PLAYING /\ input' = input /\ player'.isGrounded]_vars
    /\ [][(input.jump /\ ~PlayingTick) => input'.jump]_vars
    /\ [][(PlayingTick /\ score = 0 /\ scoreTimer = 0 /\ input.jump) =>
            /\ tick'.consumed /\ tick'.jumped
            /\ ~input'.jump
            /\ ~player'.isGrounded
            /\ player'.velocityY = jumpForce - gravityStep
            /\ player'.y = jumpForce - gravityStep]_vars

\* the first tick of a session restarted with Space after a session that set
\* a new high score: the request of that key press was consumed and the player
\* is in the air
C32_Witness ==
    /\ state = PLAYING
    /\ event = "tick"
    /\ highScore \notin HighScores
    /\ score = 0 /\ scoreTimer = fixedTimeStep
    /\ tick.ran /\ tick.consumed /\ tick.jumped
    /\ host.sets = 1 /\ host.served = 1
    /\ ~input.jump
    /\ ~player.isGrounded
    /\ player.velocityY = jumpForce - gravityStep

====
